---- MODULE Spec2Model ----
(***************************************************************************)
(* A state-machine model of the parsco parser-combinator engine.           *)
(*                                                                         *)
(* A parser is a coroutine whose promise holds o_ (its outcome), in_ (the  *)
(* remaining buffer), consumed_ and farthest_.  The model keeps the chain  *)
(* of coroutines that are currently being driven in `stack`: stack[1] is   *)
(* the parser handed to run_parser, stack[i+1] is the sub-parser that      *)
(* stack[i] is awaiting.  One action is one step of the topmost coroutine: *)
(* constructing a sub-parser, resuming it, one of the builtin awaitables,  *)
(* fail, co_return, or the completion of a co_await.                       *)
(***************************************************************************)
EXTENDS Integers, Sequences, FiniteSets, TLC

VARIABLES
  input,    \* the buffer handed to run_parser
  g,        \* index into Grammars of the parser under test
  stack,    \* coroutines being driven, outermost first
  main,     \* position of the caller of run_parser
  result,   \* what run_parser returned (optional, as a sequence of length <= 1)
  abort,    \* the assertion of the source that failed, or "none"
  step,     \* the action that produced the current state
  reach,    \* history: largest absolute cursor offset any coroutine has had
  maxFail,  \* history: largest absolute cursor offset at which a coroutine failed
  calls,    \* history: the calls of user functions made through invoke / emplace
  prev      \* what an earlier run_parser over the same input returned (optional)

vars ==
  <<input, g, stack, main, result, abort, step, reach, maxFail, calls, prev>>

(***************************************************************************)
(* Bounds and inputs                                                       *)
(***************************************************************************)
MaxLen == 3

\* The co_awaits one coroutine is followed through: a loop that does not end
\* is cut here.
MaxAttempts == 13

Alphabet == {"1", "a", " ", "'"}

Inputs ==
  UNION { [1..n -> Alphabet] : n \in 0..MaxLen }
    \cup { <<"1", "2", "a">>, <<"\"", "a", "\"">>, <<"\"", "a", "'">>,
           <<"t", "r", "u", "e">>, <<"f", "a", "l", "s", "e">>,
           <<"1", ",", "2", ",", "3">>, <<"1", ",", "2", ",">>,
           <<"1", "a", "1", "a">>, <<"a", "1", "a", "1">>,
           <<"a", "b", "c">>, <<"a", "b", "c", "d">>, <<"a", "b">>,
           <<"a", "b", "d">>, <<"B", "1", " ">>, <<"a", "B", "_">>,
           <<"'", "\\", "'">>, <<"'", "\\", "'", "'">>,
           <<"\"", "\\", "\"", "a", "\"">>,
           <<"'", "\n", "'">>, <<"\"", "a", "\n", "\"">>,
           <<"_", "1", "B", " ">>, <<"a", "_", "1", "'", "b">> }

\* Decimal numbers at and beyond the ends of int, and addresses.
IntInputs ==
  { <<"2", "1", "4", "7", "4", "8", "3", "6", "4", "7">>,
    <<"2", "1", "4", "7", "4", "8", "3", "6", "4", "8">>,
    <<"-", "2", "1", "4", "7", "4", "8", "3", "6", "4", "7">>,
    <<"-", "2", "1", "4", "7", "4", "8", "3", "6", "4", "8">>,
    <<"4", "2", "9", "4", "9", "6", "7", "2", "9", "7">>,
    <<"9", "9", "9", "9", "9", "9", "9", "9", "9", "9", "9">>,
    <<"-">>, <<"-", "a">>, <<"-", "1">>, <<"-", "-", "1">>, <<"0", "0", "7">>,
    <<"2", "5", "5">>, <<"2", "5", "6">>, <<"-", "1", "2", "a">>,
    <<"1", ".", "2", ".", "3", ".", "4">>,
    <<"1", ".", "2", ".", "3", ".", "4", "/", "8">>,
    <<"1", ".", "2", ".", "3", ".", "4", "/">>,
    <<"1", ".", "2", ".", "3", ".", "4", "/", "3", "3">>,
    <<"1", ".", "2", ".", "3", ".", "4", " ", "/", "8">>,
    <<"1", ".", "2", ".", "3", ".", "4", "/", "a">>,
    <<"1", ".", "2", ".", "3">>,
    <<"1", ",", "2", ".", "3", ".", "4">>,
    <<"1", ".", "2", ".", "2", "5", "6", ".", "4">>,
    <<"1", ".", "-", "2", ".", "3", ".", "4", "/", "-", "1">> }

Max(a, b) == IF a >= b THEN a ELSE b

(***************************************************************************)
(* Character classes (combinator.cpp, magic.cpp)                           *)
(***************************************************************************)
DigitChars == {"0", "1", "2", "3", "4", "5", "6", "7", "8", "9"}

LowerChars ==
  {"a", "b", "c", "d", "e", "f", "g", "h", "i", "j", "k", "l", "m",
   "n", "o", "p", "q", "r", "s", "t", "u", "v", "w", "x", "y", "z"}

UpperChars ==
  {"A", "B", "C", "D", "E", "F", "G", "H", "I", "J", "K", "L", "M",
   "N", "O", "P", "Q", "R", "S", "T", "U", "V", "W", "X", "Y", "Z"}

is_digit(c) == c \in DigitChars

is_lower(c) == c \in LowerChars

is_upper(c) == c \in UpperChars

is_alpha(c) == is_lower(c) \/ is_upper(c)

is_blank(c) == c \in {" ", "\n", "\r", "\t"}

is_alphanum(c) == is_digit(c) \/ c \in LowerChars \/ c \in UpperChars

is_leading_identifier_char(c) ==
  c \in UpperChars \/ c \in LowerChars \/ c = "_"

is_identifier_char(c) ==
  c \in DigitChars \/ c \in UpperChars \/ c \in LowerChars \/ c = "_"

\* The classification function a Pred coroutine was given.
Accepts(f, c) ==
  CASE f.fn = "is_digit"    -> is_digit(c)
    [] f.fn = "is_lower"    -> is_lower(c)
    [] f.fn = "is_upper"    -> is_upper(c)
    [] f.fn = "is_alpha"    -> is_alpha(c)
    [] f.fn = "is_alphanum" -> is_alphanum(c)
    [] f.fn = "is_blank"    -> is_blank(c)
    [] f.fn = "one_of"      -> c \in f.sv
    [] f.fn = "not_of"      -> c \notin f.sv

(***************************************************************************)
(* result_t<T> and error (error.hpp).  std::optional is a sequence of      *)
(* length at most one.                                                     *)
(***************************************************************************)
monostate == "monostate"

result_value(v) == [val |-> <<v>>, err |-> ""]

result_error(e) == [val |-> <<>>, err |-> e]

has_value(r) == Len(r.val) > 0

has_error(r) == ~has_value(r)

(***************************************************************************)
(* int and std::stoi (ext-basic.cpp)                                       *)
(***************************************************************************)
INT_MAX == 2147483647

INT_MIN == -INT_MAX - 1

\* The decimal digits of INT_MAX and of -INT_MIN.
INT_MAX_DIGITS == <<"2", "1", "4", "7", "4", "8", "3", "6", "4", "7">>

INT_MIN_DIGITS == <<"2", "1", "4", "7", "4", "8", "3", "6", "4", "8">>

\* A value of type int.
int_(x) == [int |-> x]

\* m * n in int for a multiplier m of 1 or -1.  -INT_MIN is not an int; the
\* product is then left as INT_MIN, as two's complement hardware leaves it.
int_times(m, n) ==
  IF m = 1 THEN n ELSE IF n = INT_MIN THEN INT_MIN ELSE -n

DigitSeq == <<"0", "1", "2", "3", "4", "5", "6", "7", "8", "9">>

DigitValue(c) == (CHOOSE d \in 1..10 : DigitSeq[d] = c) - 1

\* The digits at the head of s from position pos on.
RECURSIVE scan_digits(_, _)
scan_digits(s, pos) ==
  IF pos < Len(s) /\ is_digit(s[pos + 1])
  THEN scan_digits(s, pos + 1)
  ELSE pos

\* The zeros at the head of s from position pos on, up to position to.
RECURSIVE scan_zeros(_, _, _)
scan_zeros(s, pos, to) ==
  IF pos < to /\ s[pos + 1] = "0" THEN scan_zeros(s, pos + 1, to) ELSE pos

\* Digit strings of one length, compared as numbers.
RECURSIVE DigitsLeq(_, _)
DigitsLeq(a, b) ==
  IF Len(a) = 0 THEN TRUE
  ELSE IF DigitValue(a[1]) # DigitValue(b[1])
       THEN DigitValue(a[1]) < DigitValue(b[1])
       ELSE DigitsLeq(Tail(a), Tail(b))

\* The number the digits from..to of s write is at most the one limit writes.
AtMost(s, from, to, limit) ==
  LET z == scan_zeros(s, from - 1, to)
  IN  \/ to - z < Len(limit)
      \/ to - z = Len(limit) /\ DigitsLeq(SubSeq(s, z + 1, to), limit)

\* Minus the number the digits from..to of s write, for a number that is
\* at most -INT_MIN.
RECURSIVE MinusDecimal(_, _, _)
MinusDecimal(s, from, to) ==
  IF to < from THEN 0
  ELSE 10 * MinusDecimal(s, from, to - 1) - DigitValue(s[to])

\* The number the digits from..to of s write, modulo 2^32, as its upper and
\* lower 16 bits.
RECURSIVE DecimalMod(_, _, _)
DecimalMod(s, from, to) ==
  IF to < from THEN <<0, 0>>
  ELSE LET p  == DecimalMod(s, from, to - 1)
           lo == 10 * p[2] + DigitValue(s[to])
           hi == 10 * p[1] + (lo \div 65536)
       IN  <<hi % 65536, lo % 65536>>

\* The int with the 32 bits p.
as_int(p) ==
  IF p[1] >= 32768 THEN (p[1] - 65536) * 65536 + p[2]
  ELSE p[1] * 65536 + p[2]

\* Mutant: the value is converted to int without a check of its range.
stoi_unchecked(s) ==
  LET signed == Len(s) > 0 /\ s[1] \in {"-", "+"}
      from   == IF signed THEN 2 ELSE 1
      to     == scan_digits(s, from - 1)
      m      == as_int(DecimalMod(s, from, to))
  IN  IF to < from THEN <<>>
      ELSE <<[n       |-> IF signed /\ s[1] = "-" THEN int_times(-1, m)
                          ELSE m,
              written |-> to]>>

\* std::stoi( s, &written, 10 ) of a string that does not start with white
\* space: an optional sign and the digits after it; << >> when it throws
\* (no digit: invalid_argument; a value that is not an int: out_of_range).
stoi(s) ==
  LET signed == Len(s) > 0 /\ s[1] \in {"-", "+"}
      minus  == signed /\ s[1] = "-"
      from   == IF signed THEN 2 ELSE 1
      to     == scan_digits(s, from - 1)
  IN  IF to < from THEN <<>>
      ELSE IF ~AtMost(s, from, to,
                      IF minus THEN INT_MIN_DIGITS ELSE INT_MAX_DIGITS)
           THEN <<>>
           ELSE <<[n       |-> IF minus THEN MinusDecimal(s, from, to)
                               ELSE -MinusDecimal(s, from, to),
                   written |-> to]>>

safe_stoi(s) ==
  LET r == stoi(s)
  IN  IF Len(s) > 0 /\ Len(r) = 1 /\ r[1].written = Len(s)
      THEN result_value(int_(r[1].n))
      ELSE result_error("error parsing int")

(***************************************************************************)
(* Parser values: what the parser-returning functions of the library       *)
(* build.  ps are the parsers a combinator takes by value; they exist, not *)
(* yet driven, from the moment the combinator is called.                   *)
(***************************************************************************)
any_chr == [k |-> "any_chr", ps |-> <<>>]

chr(c) == [k |-> "chr", c |-> c, ps |-> <<>>]

pred(f) == [k |-> "pred", f |-> f, ps |-> <<>>]

digit == pred([fn |-> "is_digit", sv |-> {}])

lower == pred([fn |-> "is_lower", sv |-> {}])

upper == pred([fn |-> "is_upper", sv |-> {}])

alpha == pred([fn |-> "is_alpha", sv |-> {}])

alphanum == pred([fn |-> "is_alphanum", sv |-> {}])

blank == pred([fn |-> "is_blank", sv |-> {}])

one_of(sv) == pred([fn |-> "one_of", sv |-> sv])

not_of(sv) == pred([fn |-> "not_of", sv |-> sv])

space == chr(" ")

blanks == [k |-> "blanks", ps |-> <<>>]

identifier == [k |-> "identifier", ps |-> <<>>]

str(sv) == [k |-> "str", sv |-> sv, ps |-> <<>>]

eof == [k |-> "eof", ps |-> <<>>]

double_quoted_str == [k |-> "double_quoted_str", ps |-> <<>>]

single_quoted_str == [k |-> "single_quoted_str", ps |-> <<>>]

quoted_str == [k |-> "quoted_str", ps |-> <<>>]

ret(v) == [k |-> "ret", v |-> v, ps |-> <<>>]

try_(p) == [k |-> "try_", p |-> p]

many(f) == [k |-> "many", f |-> f, ps |-> <<>>]

many1(f) == [k |-> "many1", f |-> f, ps |-> <<>>]

seq(ps) == [k |-> "seq", ps |-> ps]

seq_last(ps) == [k |-> "seq_last", ps |-> ps]

seq_first(ps) == [k |-> "seq_first", ps |-> ps]

op_shr(l, r) == seq_last(<<l, r>>)

op_shl(l, r) == seq_first(<<l, r>>)

exhaust(p) == [k |-> "exhaust", ps |-> <<p>>]

on_error(p, msg) == [k |-> "on_error", msg |-> msg, ps |-> <<p>>]

diagnose(p1, expected) == [k |-> "diagnose", ps |-> <<p1, expected>>]

\* bracketed( parser<L> l, parser<T> p, parser<R> r )
bracketed(l, p, r) == [k |-> "bracketed", ps |-> <<l, p, r>>]

\* bracketed( char l, parser<T> p, char r )
bracketed_char(l, p, r) ==
  [k |-> "bracketed_char", l |-> l, r |-> r, ps |-> <<p>>]

\* lift( r ): the parser that yields the value of a result_t or fails with
\* its error.
lift(r) == [k |-> "lift", r |-> r, ps |-> <<>>]

parse_int == [k |-> "parse_int", ps |-> <<>>]

parse_ip_number == [k |-> "parse_ip_number", ps |-> <<>>]

parse_ip_address == [k |-> "parse_ip_address", ps |-> <<>>]

ipv4_address(ns, mask) ==
  [n1 |-> ns[1], n2 |-> ns[2], n3 |-> ns[3], n4 |-> ns[4],
   subnet_mask |-> mask]

many_exhaust(f) == [k |-> "many_exhaust", f |-> f, ps |-> <<>>]

\* parse_from_string<Lang, T>: the parser handed to run_parser, t being the
\* parser expression parse<Lang, T>().
parse_from_string(t) == exhaust(t)

first(ps) == [k |-> "first", ps |-> ps]

op_or(l, r) == first(<<l, r>>)

\* invoke( func, ps... ); func is the name of the function called.
invoke(func, ps) == [k |-> "invoke", func |-> func, ps |-> ps]

\* The lambda `applier` of Emplace::operator(): calls T's constructor.
applier(T) == T

emplace(T, ps) == invoke(applier(T), ps)

\* std::apply( func, res_tpl ): what the called function returns is kept as
\* the call itself.
apply(func, res_tpl) == [fn |-> func, args |-> res_tpl]

\* The lambda `run_parser` of Invoke::run: a coroutine that awaits the I-th
\* parser and stores its result in the I-th slot of res_tpl.
Invoke_run_parser == [k |-> "invoke_run_parser", ps |-> <<>>]

\* interleave_first( f, g, sep_required ); f and g are the parser
\* expressions the callables f() and g() return.
interleave_first(f, g_, sep_required) ==
  [k |-> "interleave_first", f |-> f, g |-> g_,
   sep_required |-> sep_required, ps |-> <<>>]

interleave_last(f, g_, sep_required) ==
  [k |-> "interleave_last", f |-> f, g |-> g_,
   sep_required |-> sep_required, ps |-> <<>>]

interleave(f, g_, sep_required) ==
  [k |-> "interleave", f |-> f, g |-> g_,
   sep_required |-> sep_required, ps |-> <<>>]

\* variant_parser<Lang>( tag<std::variant<Args...>> ); alts[i] is the
\* parser expression parse<Lang, Alt>() of the i-th type of the variant.
variant_parser(alts) == [k |-> "variant", alts |-> alts, ps |-> <<>>]

\* The lambda `one` of VariantParser::operator(), called for the i-th type.
Variant_one(alt, i) == [k |-> "variant_one", alt |-> alt, i |-> i, ps |-> <<>>]

\* The value of a std::variant holding its i-th alternative.
variant_value(i, v) == [index |-> i, v |-> v]

\* parser_for( lang<Json>, tag<boolean> )
json_boolean ==
  op_or(op_shr(str(<<"t", "r", "u", "e">>), ret(TRUE)),
        op_shr(str(<<"f", "a", "l", "s", "e">>), ret(FALSE)))

\* parser_for( lang<Json>, tag<string_val> )
json_string_val == emplace("string_val", <<quoted_str>>)

\* The lambda `one` of First::operator(): a coroutine that owns the
\* alternative it was handed.
one == [k |-> "one", ps |-> <<>>]

(***************************************************************************)
(* A parser object: the promise (o_, in_, consumed_, farthest_) and the    *)
(* coroutine frame (where it is suspended, its locals, the parsers it      *)
(* owns).  A moved-from parser is the empty sequence.                      *)
(***************************************************************************)
\* Mutant: initial_suspend does not suspend, a new coroutine is running.
RECURSIVE New_eager(_)
New_eager(t) ==
  IF t.k = "try_"
  THEN [New_eager(t.p) EXCEPT !.istry = TRUE]
  ELSE [ p         |-> t,
         istry     |-> FALSE,
         o_        |-> <<>>,
         in_       |-> <<>>,
         consumed_ |-> 0,
         farthest_ |-> 0,
         susp      |-> FALSE,
         pc        |-> 0,
         loc       |-> <<>>,
         got       |-> <<>>,
         args      |-> [i \in 1..Len(t.ps) |-> <<New_eager(t.ps[i])>>],
         sub       |-> <<>>,
         awarg     |-> 0,
         log       |-> <<>>,
         writes    |-> 0 ]

\* A parser object as get_return_object hands it out: the coroutine frame
\* with its promise, suspended at initial_suspend, owning its parameters.
RECURSIVE New(_)
New(t) ==
  IF t.k = "try_"
  THEN [New(t.p) EXCEPT !.istry = TRUE]
  ELSE [ p         |-> t,
         istry     |-> FALSE,
         o_        |-> <<>>,
         in_       |-> <<>>,
         consumed_ |-> 0,
         farthest_ |-> 0,
         susp      |-> TRUE,
         pc        |-> 0,
         loc       |-> <<>>,
         got       |-> <<>>,
         args      |-> [i \in 1..Len(t.ps) |-> <<New(t.ps[i])>>],
         sub       |-> <<>>,
         awarg     |-> 0,
         log       |-> <<>>,
         writes    |-> 0 ]

finished(f) == Len(f.o_) > 0

is_good(f) == Len(f.o_) > 0 /\ has_value(f.o_[1])

is_error(f) == Len(f.o_) > 0 /\ has_error(f.o_[1])

(***************************************************************************)
(* The hand-written scanners of magic.cpp                                  *)
(***************************************************************************)
RECURSIVE scan_blanks(_, _)
scan_blanks(in, pos) ==
  IF pos < Len(in) /\ is_blank(in[pos + 1])
  THEN scan_blanks(in, pos + 1)
  ELSE pos

RECURSIVE scan_identifier(_, _)
scan_identifier(in, pos) ==
  IF pos < Len(in) /\ is_identifier_char(in[pos + 1])
  THEN scan_identifier(in, pos + 1)
  ELSE pos

\* Mutant: at least one blank is required.
blanks_try_parse_some(in) ==
  LET pos == scan_blanks(in, 0)
  IN  IF pos = 0 THEN <<>>
      ELSE <<[sv |-> SubSeq(in, 1, pos), consumed |-> pos]>>

blanks_try_parse(in) ==
  LET pos == scan_blanks(in, 0)
  IN  <<[sv |-> SubSeq(in, 1, pos), consumed |-> pos]>>

\* Mutant: the first character is held to the rule of the later ones.
identifier_try_parse_any_lead(in) ==
  IF Len(in) = 0 \/ ~is_identifier_char(in[1])
  THEN <<>>
  ELSE LET pos == scan_identifier(in, 0)
       IN  <<[sv |-> SubSeq(in, 1, pos), consumed |-> pos]>>

identifier_try_parse(in) ==
  IF Len(in) = 0 \/ ~is_leading_identifier_char(in[1])
  THEN <<>>
  ELSE LET pos == scan_identifier(in, 0)
       IN  <<[sv |-> SubSeq(in, 1, pos), consumed |-> pos]>>

\* The while( true ) loop of the quoted-string scanners, entered with pos
\* characters read: the position after the closing quote q, or nothing when
\* the input ends first.
RECURSIVE scan_quoted(_, _, _)
scan_quoted(in, pos, q) ==
  IF pos = Len(in) THEN <<>>
  ELSE IF in[pos + 1] = q THEN <<pos + 1>>
  ELSE scan_quoted(in, pos + 1, q)

\* Mutant: the slice returned keeps the two quotes.
quoted_try_parse_with_quotes(in, q) ==
  IF Len(in) = 0 \/ in[1] # q
  THEN <<>>
  ELSE LET end == scan_quoted(in, 1, q)
       IN  IF Len(end) = 0 THEN <<>>
           ELSE <<[sv       |-> SubSeq(in, 1, end[1]),
                   consumed |-> end[1]]>>

quoted_try_parse(in, q) ==
  IF Len(in) = 0 \/ in[1] # q
  THEN <<>>
  ELSE LET end == scan_quoted(in, 1, q)
       IN  IF Len(end) = 0 THEN <<>>
           ELSE <<[sv       |-> SubSeq(in, 2, end[1] - 1),
                   consumed |-> end[1]]>>

single_quoted_try_parse(in) == quoted_try_parse(in, "'")

double_quoted_try_parse(in) == quoted_try_parse(in, "\"")

try_parse(name, in) ==
  CASE name = "blanks"        -> blanks_try_parse(in)
    [] name = "identifier"    -> identifier_try_parse(in)
    [] name = "single_quoted" -> single_quoted_try_parse(in)
    [] name = "double_quoted" -> double_quoted_try_parse(in)

builtin_err(name) ==
  CASE name = "blanks"        -> "blanks"
    [] name = "identifier"    -> "identifier"
    [] name = "single_quoted" -> "single-quoted string"
    [] name = "double_quoted" -> "double-quoted string"

(***************************************************************************)
(* Coroutine bodies.  Body(s, i) is the next thing coroutine s[i] does     *)
(* when it runs: the straight-line code up to its next suspension point    *)
(* (whose effect on the locals is op.loc) and then one of                  *)
(*   await      co_await of a parser (in op.obj), after constructing it    *)
(*              (create) or taking it from this coroutine's parameters,    *)
(*   next_char  co_await builtin_next_char{},                              *)
(*   builtin    co_await builtin_blanks{} and the like,                    *)
(*   fail       co_await fail( msg ),                                      *)
(*   return     co_return, or flowing off the end of a parser<>.           *)
(* pc counts the co_awaits the coroutine has completed; got is the value   *)
(* of the last one.                                                        *)
(***************************************************************************)
OpNextChar(pc) == [op |-> "next_char", pc |-> pc]

OpBuiltin(name, pc) == [op |-> "builtin", name |-> name, pc |-> pc]

\* assert( false ) in the body of a coroutine
OpAssertFalse(where) == [op |-> "assert_false", where |-> where]

OpFail(msg) == [op |-> "fail", msg |-> msg]

OpReturn(v) ==
  [op |-> "return", val |-> v, setcap |-> FALSE, cap |-> <<>>, call |-> <<>>]

\* co_return of a lambda that first stored cap in a variable it captured by
\* reference from the enclosing coroutine.
OpReturnCap(v, cap) ==
  [op |-> "return", val |-> v, setcap |-> TRUE, cap |-> cap, call |-> <<>>]

Try(obj) == [obj EXCEPT !.istry = TRUE]

OpAwaitNew(t, loc, pc) ==
  [op |-> "await", create |-> TRUE, obj |-> <<New(t)>>, arg |-> 0,
   loc |-> loc, pc |-> pc]

OpAwaitArg(f, i, try, loc, pc) ==
  [op |-> "await", create |-> FALSE,
   obj |-> IF try /\ Len(f.args[i]) = 1 THEN <<Try(f.args[i][1])>>
           ELSE f.args[i],
   arg |-> i, loc |-> loc, pc |-> pc]

OpAwaitOne(f, i, loc, pc) ==
  [op |-> "await", create |-> TRUE,
   obj |-> <<[New(one) EXCEPT !.args = <<f.args[i]>>]>>,
   arg |-> i, loc |-> loc, pc |-> pc]

\* co_await run_parser( std::integral_constant<size_t, I>{} ) in Invoke::run
OpAwaitRunParser(f, i, loc, pc) ==
  [op |-> "await", create |-> TRUE,
   obj |-> <<[New(Invoke_run_parser) EXCEPT !.args = <<f.args[i]>>]>>,
   arg |-> i, loc |-> loc, pc |-> pc]

\* co_return std::apply( func, std::move( res_tpl ) )
OpReturnApply(func, res_tpl) ==
  [op |-> "return", val |-> apply(func, res_tpl), setcap |-> FALSE,
   cap |-> <<>>, call |-> <<[fn |-> func, args |-> res_tpl]>>]

any_chr_body(f) ==
  IF f.pc = 0 THEN OpNextChar(1) ELSE OpReturn(f.got)

chr_body(f) ==
  IF f.pc = 0 THEN OpNextChar(1)
  ELSE IF f.got # f.p.c
       THEN OpFail("expected '" \o f.p.c \o "'")
       ELSE OpReturn(f.p.c)

\* Mutant: the classification function is not consulted.
Pred_body_unchecked(f) ==
  IF f.pc = 0 THEN OpNextChar(1) ELSE OpReturn(f.got)

Pred_body(f) ==
  IF f.pc = 0 THEN OpNextChar(1)
  ELSE IF ~Accepts(f.p.f, f.got) THEN OpFail("") ELSE OpReturn(f.got)

blanks_body(f) ==
  IF f.pc = 0 THEN OpBuiltin("blanks", 1) ELSE OpReturn(f.got)

identifier_body(f) ==
  IF f.pc = 0 THEN OpBuiltin("identifier", 1) ELSE OpReturn(f.got)

double_quoted_str_body(f) ==
  IF f.pc = 0 THEN OpBuiltin("double_quoted", 1) ELSE OpReturn(f.got)

single_quoted_str_body(f) ==
  IF f.pc = 0 THEN OpBuiltin("single_quoted", 1) ELSE OpReturn(f.got)

quoted_str_body(f) ==
  IF f.pc = 0
  THEN OpAwaitNew(first(<<double_quoted_str, single_quoted_str>>), <<>>, 1)
  ELSE OpReturn(f.got)

\* Mutant: only the first character of the literal is compared.
str_body_first(f) ==
  IF f.pc < Len(f.p.sv) /\ f.pc < 1
  THEN OpAwaitNew(chr(f.p.sv[f.pc + 1]), <<>>, f.pc + 1)
  ELSE OpReturn(monostate)

str_body(f) ==
  IF f.pc < Len(f.p.sv)
  THEN OpAwaitNew(chr(f.p.sv[f.pc + 1]), <<>>, f.pc + 1)
  ELSE OpReturn(monostate)

\* Mutant: the probe is awaited without try_.
eof_body_charged(f) ==
  IF f.pc = 0 THEN OpAwaitNew(any_chr, <<>>, 1)
  ELSE OpFail("failed to parse all characters in input stream")

eof_body(f) ==
  IF f.pc = 0 THEN OpAwaitNew(try_(any_chr), <<>>, 1)
  ELSE IF has_value(f.got)
       THEN OpFail("failed to parse all characters in input stream")
       ELSE OpReturn(monostate)

Ret_body(f) == OpReturn(f.p.v)

\* Mutant: each new element is put in front of the ones collected so far.
Many_body_push_front(f) ==
  IF f.pc = 0 THEN OpAwaitNew(try_(f.p.f), <<>>, 1)
  ELSE IF ~has_value(f.got) THEN OpReturn(f.loc)
       ELSE OpAwaitNew(try_(f.p.f), <<f.got.val[1]>> \o f.loc, 1)

\* Mutant: the loop tries the element once more after its first failure.
Many_body_retry(f) ==
  IF f.pc = 0 THEN OpAwaitNew(try_(f.p.f), <<>>, 1)
  ELSE IF ~has_value(f.got)
       THEN IF f.pc = 1 THEN OpAwaitNew(try_(f.p.f), f.loc, 2)
            ELSE OpReturn(f.loc)
       ELSE OpAwaitNew(try_(f.p.f), Append(f.loc, f.got.val[1]), 1)

Many_body(f) ==
  IF f.pc = 0 THEN OpAwaitNew(try_(f.p.f), <<>>, 1)
  ELSE IF ~has_value(f.got) THEN OpReturn(f.loc)
       ELSE OpAwaitNew(try_(f.p.f), Append(f.loc, f.got.val[1]), 1)

\* Mutant: the check for an empty result is left out.
Many1_body_unchecked(f) ==
  IF f.pc = 0 THEN OpAwaitNew(many(f.p.f), <<>>, 1)
  ELSE OpReturn(f.got)

\* Mutant: the first element is dropped from the result.
Many1_body_tail(f) ==
  IF f.pc = 0 THEN OpAwaitNew(many(f.p.f), <<>>, 1)
  ELSE IF Len(f.got) = 0 THEN OpFail("") ELSE OpReturn(Tail(f.got))

Many1_body(f) ==
  IF f.pc = 0 THEN OpAwaitNew(many(f.p.f), <<>>, 1)
  ELSE IF Len(f.got) = 0 THEN OpFail("") ELSE OpReturn(f.got)

\* Mutant: the parameters are awaited from the last to the first.
Seq_body_backwards(f) ==
  LET N   == Len(f.args)
      tpl == IF f.pc = 0 THEN <<>> ELSE <<f.got>> \o f.loc
  IN  IF f.pc < N THEN OpAwaitArg(f, N - f.pc, FALSE, tpl, f.pc + 1)
      ELSE OpReturn(tpl)

Seq_body(f) ==
  LET N   == Len(f.args)
      tpl == IF f.pc = 0 THEN <<>> ELSE Append(f.loc, f.got)
  IN  IF f.pc < N THEN OpAwaitArg(f, f.pc + 1, FALSE, tpl, f.pc + 1)
      ELSE OpReturn(tpl)

SeqLast_body(f) ==
  IF f.pc < Len(f.args)
  THEN OpAwaitArg(f, f.pc + 1, FALSE, f.loc, f.pc + 1)
  ELSE OpReturn(f.got)

SeqFirst_body(f) ==
  LET res == IF f.pc = 1 THEN f.got ELSE f.loc
  IN  IF f.pc < Len(f.args)
      THEN OpAwaitArg(f, f.pc + 1, FALSE, res, f.pc + 1)
      ELSE OpReturn(res)

Lift_body(f) ==
  IF has_value(f.p.r) THEN OpReturn(f.p.r.val[1]) ELSE OpFail(f.p.r.err)

\* Mutant: the sign that was read is not applied.
parse_int_body_unsigned(f) ==
  CASE f.pc = 0 -> OpAwaitNew(try_(chr("-")), <<>>, 1)
    [] f.pc = 1 -> OpAwaitNew(many1(digit), <<int_(1)>>, 2)
    [] f.pc = 2 -> OpAwaitNew(lift(safe_stoi(f.got)), f.loc, 3)
    [] OTHER    -> OpReturn(int_(int_times(f.loc[1].int, f.got.int)))

\* loc[1] is multiplier.
parse_int_body(f) ==
  CASE f.pc = 0 -> OpAwaitNew(try_(chr("-")), <<>>, 1)
    [] f.pc = 1 -> OpAwaitNew(many1(digit),
                              <<IF has_value(f.got) THEN int_(-1)
                                ELSE int_(1)>>, 2)
    [] f.pc = 2 -> OpAwaitNew(lift(safe_stoi(f.got)), f.loc, 3)
    [] OTHER    -> OpReturn(int_(int_times(f.loc[1].int, f.got.int)))

parse_ip_number_body(f) ==
  IF f.pc = 0 THEN OpAwaitNew(parse_int, <<>>, 1)
  ELSE IF f.got.int > 255 THEN OpFail("ip values must be <= 255")
       ELSE OpReturn(f.got)

\* Mutant: the '/' is awaited together with the mask, in one try_.
parse_ip_address_body_backtracking(f) ==
  CASE f.pc \in {0, 2, 4, 6} ->
         OpAwaitNew(parse_ip_number, f.loc, f.pc + 1)
    [] f.pc \in {1, 3, 5} ->
         OpAwaitNew(chr("."), Append(f.loc, f.got), f.pc + 1)
    [] f.pc = 7 ->
         OpAwaitNew(try_(seq_last(<<chr("/"), parse_int>>)),
                    Append(f.loc, f.got), 9)
    [] OTHER ->
         IF ~has_value(f.got) THEN OpReturn(ipv4_address(f.loc, <<>>))
         ELSE IF f.got.val[1].int > 32
              THEN OpFail("subnet mask must be <= 32")
              ELSE OpReturn(ipv4_address(f.loc, <<f.got.val[1]>>))

\* loc holds n1..n4 as they are read.
parse_ip_address_body(f) ==
  CASE f.pc \in {0, 2, 4, 6} ->
         OpAwaitNew(parse_ip_number, f.loc, f.pc + 1)
    [] f.pc \in {1, 3, 5} ->
         OpAwaitNew(chr("."), Append(f.loc, f.got), f.pc + 1)
    [] f.pc = 7 ->
         OpAwaitNew(try_(chr("/")), Append(f.loc, f.got), 8)
    [] f.pc = 8 ->
         IF has_value(f.got) THEN OpAwaitNew(parse_int, f.loc, 9)
         ELSE OpReturn(ipv4_address(f.loc, <<>>))
    [] OTHER ->
         IF f.got.int > 32 THEN OpFail("subnet mask must be <= 32")
         ELSE OpReturn(ipv4_address(f.loc, <<f.got>>))

\* ManyExhaust::operator().  Its first statement is read as
\*   auto res = co_await try_{ exhaust( many( f, args... ) ) };
\* the source has `exaust` and no co_await, which no instantiation compiles;
\* res.has_value() and *res, and the comments, are those of the awaited form.
ManyExhaust_body(f) ==
  CASE f.pc = 0 -> OpAwaitNew(try_(exhaust(many(f.p.f))), <<>>, 1)
    [] f.pc = 1 -> IF has_value(f.got) THEN OpReturn(f.got.val[1])
                   ELSE OpAwaitNew(f.p.f, <<>>, 2)
    [] OTHER    -> OpAssertFalse("many_exhaust: assert( false )")

\* Mutant: the end of the input is not required.
Exhaust_body_no_eof(f) ==
  CASE f.pc = 0 -> OpAwaitArg(f, 1, FALSE, <<>>, 1)
    [] OTHER    -> OpReturn(f.got)

Exhaust_body(f) ==
  CASE f.pc = 0 -> OpAwaitArg(f, 1, FALSE, <<>>, 1)
    [] f.pc = 1 -> OpAwaitNew(eof, f.got, 2)
    [] OTHER    -> OpReturn(f.loc)

\* Mutant: the parser's own message is passed on.
OnError_body_keep(f) ==
  IF f.pc = 0 THEN OpAwaitArg(f, 1, TRUE, <<>>, 1)
  ELSE IF has_value(f.got) THEN OpReturn(f.got.val[1])
       ELSE OpFail(f.got.err)

OnError_body(f) ==
  IF f.pc = 0 THEN OpAwaitArg(f, 1, TRUE, <<>>, 1)
  ELSE IF has_value(f.got) THEN OpReturn(f.got.val[1])
       ELSE OpFail(f.p.msg)

\* Mutant: when the expected parser succeeds the result is returned.
Diagnose_body_accept(f) ==
  CASE f.pc = 0 -> OpAwaitArg(f, 1, FALSE, <<>>, 1)
    [] f.pc = 1 -> OpAwaitNew(try_(eof), f.got, 2)
    [] f.pc = 2 -> IF has_value(f.got) THEN OpReturn(f.loc)
                   ELSE OpAwaitArg(f, 2, FALSE, f.loc, 3)
    [] OTHER    -> OpReturn(f.loc)

\* Diagnose::operator(); the local `res` is kept in loc.
Diagnose_body(f) ==
  CASE f.pc = 0 -> OpAwaitArg(f, 1, FALSE, <<>>, 1)
    [] f.pc = 1 -> OpAwaitNew(try_(eof), f.got, 2)
    [] f.pc = 2 -> IF has_value(f.got) THEN OpReturn(f.loc)
                   ELSE OpAwaitArg(f, 2, FALSE, f.loc, 3)
    [] OTHER    ->
         OpFail("parsing partially succeeded but was not able to " \o
                "consume all input.")

\* Bracketed::operator()( char, parser<T>, char )
Bracketed_char_body(f) ==
  CASE f.pc = 0 -> OpAwaitNew(chr(f.p.l), <<>>, 1)
    [] f.pc = 1 -> OpAwaitArg(f, 1, FALSE, <<>>, 2)
    [] f.pc = 2 -> OpAwaitNew(chr(f.p.r), f.got, 3)
    [] OTHER    -> OpReturn(f.loc)

\* Mutant: the result of the right delimiter is returned.
Bracketed_body_right(f) ==
  CASE f.pc = 0 -> OpAwaitArg(f, 1, FALSE, <<>>, 1)
    [] f.pc = 1 -> OpAwaitArg(f, 2, FALSE, <<>>, 2)
    [] f.pc = 2 -> OpAwaitArg(f, 3, FALSE, f.got, 3)
    [] OTHER    -> OpReturn(f.got)

\* Bracketed::operator()( parser<L>, parser<T>, parser<R> )
Bracketed_body(f) ==
  CASE f.pc = 0 -> OpAwaitArg(f, 1, FALSE, <<>>, 1)
    [] f.pc = 1 -> OpAwaitArg(f, 2, FALSE, <<>>, 2)
    [] f.pc = 2 -> OpAwaitArg(f, 3, FALSE, f.got, 3)
    [] OTHER    -> OpReturn(f.loc)

First_body(f) ==
  IF f.pc < Len(f.args) THEN OpAwaitOne(f, f.pc + 1, f.loc, f.pc + 1)
  ELSE IF Len(f.loc) = 0 THEN OpFail("") ELSE OpReturn(f.loc[1])

\* Mutant: the lambda does not look at res before trying its alternative.
First_one_body_always(f, up) ==
  IF f.pc = 0
  THEN OpAwaitArg(f, 1, TRUE, <<>>, 1)
  ELSE IF ~has_value(f.got) THEN OpReturn(monostate)
       ELSE OpReturnCap(monostate, <<f.got.val[1]>>)

\* Mutant: the lambda awaits its alternative without try_.
First_one_body_plain(f, up) ==
  IF f.pc = 0
  THEN IF Len(up.loc) > 0 THEN OpReturn(monostate)
       ELSE OpAwaitArg(f, 1, FALSE, <<>>, 1)
  ELSE OpReturnCap(monostate, <<f.got>>)

\* up is the First coroutine whose local `res` the lambda captured.
First_one_body(f, up) ==
  IF f.pc = 0
  THEN IF Len(up.loc) > 0 THEN OpReturn(monostate)
       ELSE OpAwaitArg(f, 1, TRUE, <<>>, 1)
  ELSE IF ~has_value(f.got) THEN OpReturn(monostate)
       ELSE OpReturnCap(monostate, <<f.got.val[1]>>)

InterleaveFirst_body(f) ==
  IF f.pc = 0
  THEN IF f.p.sep_required
       THEN OpAwaitNew(many(seq_last(<<f.p.g, f.p.f>>)), <<>>, 1)
       ELSE OpAwaitNew(many(seq_first(<<try_(f.p.g), f.p.f>>)), <<>>, 1)
  ELSE OpReturn(f.got)

\* Mutant: the separator is required after the primary in both modes.
InterleaveLast_body_strict(f) ==
  IF f.pc = 0
  THEN OpAwaitNew(many(seq_first(<<f.p.f, f.p.g>>)), <<>>, 1)
  ELSE OpReturn(f.got)

InterleaveLast_body(f) ==
  IF f.pc = 0
  THEN IF f.p.sep_required
       THEN OpAwaitNew(many(seq_first(<<f.p.f, f.p.g>>)), <<>>, 1)
       ELSE OpAwaitNew(many(seq_first(<<f.p.f, try_(f.p.g)>>)), <<>>, 1)
  ELSE OpReturn(f.got)

\* Mutant: the trailing primary is not parsed.
Interleave_body_no_trailing(f) ==
  IF f.pc = 0
  THEN OpAwaitNew(interleave_last(f.p.f, f.p.g, f.p.sep_required), <<>>, 1)
  ELSE OpReturn(f.got)

\* Interleave::operator(); the local `container` is kept in loc.
Interleave_body(f) ==
  CASE f.pc = 0 ->
         OpAwaitNew(interleave_last(f.p.f, f.p.g, f.p.sep_required), <<>>, 1)
    [] f.pc = 1 ->
         IF f.p.sep_required THEN OpAwaitNew(f.p.f, f.got, 2)
         ELSE OpReturn(f.got)
    [] OTHER    -> OpReturn(Append(f.loc, f.got))

\* co_await one( (Args*)nullptr ) in VariantParser::operator()
OpAwaitVariantOne(f, i, pc) ==
  [op |-> "await", create |-> TRUE,
   obj |-> <<New(Variant_one(f.p.alts[i], i))>>,
   arg |-> 0, loc |-> f.loc, pc |-> pc]

\* Mutant: the candidates are tried from the last type to the first.
Variant_body_backwards(f) ==
  LET N == Len(f.p.alts)
  IN  IF f.pc < N THEN OpAwaitVariantOne(f, N - f.pc, f.pc + 1)
      ELSE IF Len(f.loc) = 0 THEN OpFail("") ELSE OpReturn(f.loc[1])

\* VariantParser::operator(); the local `res` is kept in loc.
Variant_body(f) ==
  IF f.pc < Len(f.p.alts) THEN OpAwaitVariantOne(f, f.pc + 1, f.pc + 1)
  ELSE IF Len(f.loc) = 0 THEN OpFail("") ELSE OpReturn(f.loc[1])

\* up is the VariantParser coroutine whose local `res` the lambda captured.
Variant_one_body(f, up) ==
  IF f.pc = 0
  THEN IF Len(up.loc) > 0 THEN OpReturn(monostate)
       ELSE OpAwaitNew(try_(f.p.alt), <<>>, 1)
  ELSE IF ~has_value(f.got) THEN OpReturn(monostate)
       ELSE OpReturnCap(monostate, <<variant_value(f.p.i, f.got.val[1])>>)

\* Mutant: the fold runs over the index sequence backwards.
Invoke_run_body_backwards(f) ==
  LET N       == Len(f.args)
      res_tpl == IF f.pc = 0 THEN [j \in 1..N |-> <<>>] ELSE f.loc
  IN  IF f.pc < N
      THEN OpAwaitRunParser(f, N - f.pc, res_tpl, f.pc + 1)
      ELSE OpReturnApply(f.p.func, [j \in 1..N |-> res_tpl[j][1]])

\* Invoke::run.  res_tpl is kept in loc, one slot per parser: empty while it
\* holds its default-constructed value, <<v>> once the lambda has assigned v.
Invoke_run_body(f) ==
  LET N       == Len(f.args)
      res_tpl == IF f.pc = 0 THEN [j \in 1..N |-> <<>>] ELSE f.loc
  IN  IF f.pc < N
      THEN OpAwaitRunParser(f, f.pc + 1, res_tpl, f.pc + 1)
      ELSE OpReturnApply(f.p.func, [j \in 1..N |-> res_tpl[j][1]])

\* up is the Invoke::run coroutine whose res_tpl the lambda captured; I is
\* the index the lambda was called with.
Invoke_run_parser_body(f, up) ==
  IF f.pc = 0 THEN OpAwaitArg(f, 1, FALSE, <<>>, 1)
  ELSE OpReturnCap(monostate, [up.loc EXCEPT ![up.awarg] = <<f.got>>])

Body(s, i) ==
  LET f == s[i]
      k == f.p.k
  IN  CASE k = "any_chr"    -> any_chr_body(f)
        [] k = "chr"        -> chr_body(f)
        [] k = "pred"       -> Pred_body(f)
        [] k = "blanks"     -> blanks_body(f)
        [] k = "identifier" -> identifier_body(f)
        [] k = "str"        -> str_body(f)
        [] k = "double_quoted_str" -> double_quoted_str_body(f)
        [] k = "single_quoted_str" -> single_quoted_str_body(f)
        [] k = "quoted_str" -> quoted_str_body(f)
        [] k = "eof"        -> eof_body(f)
        [] k = "ret"        -> Ret_body(f)
        [] k = "many"       -> Many_body(f)
        [] k = "many1"      -> Many1_body(f)
        [] k = "seq"        -> Seq_body(f)
        [] k = "seq_last"   -> SeqLast_body(f)
        [] k = "seq_first"  -> SeqFirst_body(f)
        [] k = "exhaust"    -> Exhaust_body(f)
        [] k = "first"      -> First_body(f)
        [] k = "bracketed"  -> Bracketed_body(f)
        [] k = "diagnose"   -> Diagnose_body(f)
        [] k = "many_exhaust" -> ManyExhaust_body(f)
        [] k = "lift"       -> Lift_body(f)
        [] k = "parse_int"  -> parse_int_body(f)
        [] k = "parse_ip_number" -> parse_ip_number_body(f)
        [] k = "parse_ip_address" -> parse_ip_address_body(f)
        [] k = "on_error"   -> OnError_body(f)
        [] k = "bracketed_char" -> Bracketed_char_body(f)
        [] k = "one"        -> First_one_body(f, s[i - 1])
        [] k = "invoke"     -> Invoke_run_body(f)
        [] k = "variant"    -> Variant_body(f)
        [] k = "interleave_first" -> InterleaveFirst_body(f)
        [] k = "interleave_last"  -> InterleaveLast_body(f)
        [] k = "interleave"       -> Interleave_body(f)
        [] k = "variant_one" -> Variant_one_body(f, s[i - 1])
        [] k = "invoke_run_parser" -> Invoke_run_parser_body(f, s[i - 1])

(***************************************************************************)
(* The promise's awaitables (promise.hpp) as functions on the awaiting     *)
(* coroutine par and the driven parser child.                              *)
(***************************************************************************)
\* parser<T>::resume
resume(p, buffer) == [p EXCEPT !.in_ = buffer, !.susp = FALSE]

\* int chars_consumed in awaitable::await_resume
chars_consumed(par, child) == Len(par.in_) - Len(child.in_)

\* Mutant: the farthest of the driven parser is assigned, not maximised.
awaitable_await_ready_assign(par, child) ==
  [par EXCEPT !.farthest_ = par.consumed_ + child.farthest_]

\* Mutant: the farthest of the driven parser is taken over only when it
\* succeeded.
awaitable_await_ready_good(par, child) ==
  IF is_good(child)
  THEN [par EXCEPT
          !.farthest_ = Max(par.farthest_, par.consumed_ + child.farthest_)]
  ELSE par

\* awaitable::await_ready, after parser_.resume has returned.
awaitable_await_ready(par, child) ==
  [par EXCEPT
     !.farthest_ = Max(par.farthest_, par.consumed_ + child.farthest_)]

\* Mutant: the failed parser's consumption is charged to the awaiting
\* coroutine before it is failed.
awaitable_await_suspend_consume(par, child) ==
  LET n == chars_consumed(par, child)
  IN  [par EXCEPT !.o_        = <<result_error(child.o_[1].err)>>,
                  !.susp      = TRUE,
                  !.writes    = @ + 1,
                  !.in_       = SubSeq(par.in_, n + 1, Len(par.in_)),
                  !.consumed_ = @ + n]

\* Mutant: the awaiting coroutine is suspended for good without the
\* error being stored in it.
awaitable_await_suspend_forget(par, child) ==
  [par EXCEPT !.susp = TRUE]

\* awaitable::await_suspend: the awaiting coroutine takes the error as its
\* own outcome and is never resumed.
awaitable_await_suspend(par, child) ==
  [par EXCEPT !.o_     = <<result_error(child.o_[1].err)>>,
              !.susp   = TRUE,
              !.writes = @ + 1]

awaitable_await_resume(par, child) ==
  LET n == chars_consumed(par, child)
  IN  [par EXCEPT !.in_       = SubSeq(par.in_, n + 1, Len(par.in_)),
                  !.consumed_ = @ + n,
                  !.got       = child.o_[1].val[1]]

\* Mutant: the refund on failure is forgotten, the failed attempt's
\* characters stay consumed.
tryable_await_resume_norefund(par, child) ==
  LET n == chars_consumed(par, child)
  IN  IF is_error(child)
      THEN [par EXCEPT !.in_       = SubSeq(par.in_, n + 1, Len(par.in_)),
                       !.consumed_ = @ + n,
                       !.got       = result_error(child.o_[1].err)]
      ELSE [par EXCEPT !.in_       = SubSeq(par.in_, n + 1, Len(par.in_)),
                       !.consumed_ = @ + n,
                       !.got       = result_value(child.o_[1].val[1])]

\* Mutant: a successful attempt yields its value but its consumption is
\* given back like a failed one's.
tryable_await_resume_drop(par, child) ==
  IF is_error(child)
  THEN [par EXCEPT !.got = result_error(child.o_[1].err)]
  ELSE [par EXCEPT !.got = result_value(child.o_[1].val[1])]

tryable_await_resume(par, child) ==
  IF is_error(child)
  THEN [par EXCEPT !.got = result_error(child.o_[1].err)]
  ELSE LET r == awaitable_await_resume(par, child)
       IN  [r EXCEPT !.got = result_value(r.got)]

next_char_await_ready(f) == Len(f.in_) > 0

next_char_await_suspend(f) ==
  [f EXCEPT !.o_     = <<result_error("EOF")>>,
            !.susp   = TRUE,
            !.writes = @ + 1]

\* Mutant: the character is counted but stays in the buffer.
next_char_await_resume_keep(f) ==
  [f EXCEPT !.got       = f.in_[1],
            !.consumed_ = @ + 1,
            !.farthest_ = f.consumed_ + 1]

next_char_await_resume(f) ==
  [f EXCEPT !.got       = f.in_[1],
            !.in_       = Tail(f.in_),
            !.consumed_ = @ + 1,
            !.farthest_ = f.consumed_ + 1]

builtin_await_ready(f, res) ==
  [f EXCEPT !.in_       = SubSeq(f.in_, res.consumed + 1, Len(f.in_)),
            !.consumed_ = @ + res.consumed,
            !.farthest_ = f.consumed_ + res.consumed,
            !.got       = res.sv]

builtin_await_suspend(f, err) ==
  [f EXCEPT !.o_     = <<result_error("expected " \o err)>>,
            !.susp   = TRUE,
            !.writes = @ + 1]

\* Mutant: the error is stored but the coroutine is not suspended.
await_transform_fail_running(f, msg) ==
  [f EXCEPT !.o_     = <<result_error(msg)>>,
            !.writes = @ + 1]

\* await_transform( fail_wrapper ): o_ = f.err, then suspend for good.
await_transform_fail(f, msg) ==
  [f EXCEPT !.o_     = <<result_error(msg)>>,
            !.susp   = TRUE,
            !.writes = @ + 1]

\* return_value_ / return_void_ followed by final_suspend.
return_value_(f, val) ==
  [f EXCEPT !.o_     = <<result_value(val)>>,
            !.susp   = TRUE,
            !.writes = @ + 1]

\* The parameters of coroutine f that still hold a parser nobody has driven.
Held(f) == {j \in 1..Len(f.args) : Len(f.args[j]) = 1}

\* What the awaiting coroutine remembers of a finished co_await (history).
Logged(par, child, newpar) ==
  Append(par.log,
         [arg  |-> par.awarg,
          k    |-> child.p.k,
          try  |-> child.istry,
          at   |-> par.consumed_,
          cons |-> child.consumed_,
          far  |-> child.farthest_,
          adv  |-> newpar.consumed_ - par.consumed_,
          left |-> Held(child),
          inner |-> IF Len(child.log) > 0 THEN <<child.log[1].r>> ELSE <<>>,
          r    |-> child.o_[1]])

\* Absolute offset in `input` of the start of the buffer coroutine s[i] was
\* driven with.
RECURSIVE Base(_, _)
Base(s, i) == IF i <= 1 THEN 0 ELSE Base(s, i - 1) + s[i - 1].consumed_

TakeArg(args, i) == IF i = 0 THEN args ELSE [args EXCEPT ![i] = <<>>]

(***************************************************************************)
(* The parsers under test                                                  *)
(***************************************************************************)
\* The grammar of the diagnostic example: a digit sequence, then end of input.
digits_then_eof == exhaust(many(digit))

Grammars ==
  << chr("a"),
     digit,
     any_chr,
     blanks,
     identifier,
     eof,
     str(<<"a", "1">>),
     many(digit),
     many1(digit),
     digits_then_eof,
     seq(<<chr("a"), digit>>),
     seq(<<digit, blanks, identifier>>),
     op_shr(blanks, one_of({"a", "1"})),
     op_shl(digit, chr("a")),
     seq_last(<<digit, chr("a"), digit>>),
     seq_first(<<many(digit), chr("a"), eof>>),
     op_or(chr("a"), digit),
     first(<<str(<<"a", "1">>), chr("a"), any_chr>>),
     op_shl(many(op_or(str(<<"a", "1">>), digit)), eof),
     single_quoted_str,
     double_quoted_str,
     quoted_str,
     seq(<<quoted_str, digit>>),
     invoke("func", <<digit, blanks, identifier>>),
     emplace("T", <<any_chr, chr("a")>>),
     op_shl(emplace("T", <<many(digit)>>), blanks),
     many(seq(<<digit, chr("a")>>)),
     op_shr(chr("a"), many(any_chr)),
     op_shr(blanks, many1(seq(<<digit, chr("a")>>))),
     many1(seq(<<digit, chr("a")>>)),
     many1(any_chr),
     many(any_chr),
     first(<<seq(<<digit, digit>>), digit, any_chr>>),
     op_shr(digit, op_or(str(<<"a", "1">>), chr("1"))),
     variant_parser(<<many1(digit), json_boolean, json_string_val>>),
     op_shr(blanks, variant_parser(<<seq(<<digit, digit>>), digit, any_chr>>)),
     interleave(digit, chr(","), TRUE),
     interleave(digit, chr("a"), TRUE),
     interleave(digit, chr("a"), FALSE),
     op_shr(blanks, interleave(digit, chr("a"), TRUE)),
     interleave_last(digit, chr("a"), TRUE),
     interleave_last(digit, chr("a"), FALSE),
     op_shr(any_chr, interleave_last(digit, chr("a"), TRUE)),
     interleave_first(emplace("T", <<digit>>), chr("a"), TRUE),
     interleave_first(emplace("T", <<digit>>), chr("a"), FALSE),
     bracketed_char("'", many(digit), "'"),
     bracketed(blanks, digit, chr("a")),
     op_shr(any_chr, bracketed(digit, chr("a"), any_chr)),
     exhaust(str(<<"a", "b", "c">>)),
     exhaust(identifier),
     op_shr(blanks, exhaust(many(seq(<<digit, chr("a")>>)))),
     diagnose(many(digit), chr("a")),
     diagnose(digit, any_chr),
     op_shr(blanks, diagnose(identifier, seq(<<chr("'"), digit>>))),
     on_error(seq(<<digit, chr("a")>>), "expected a pair"),
     op_shr(any_chr, on_error(str(<<"a", "1">>), "expected a1")),
     exhaust(many(on_error(seq(<<digit, digit>>), "expected two digits"))),
     seq(<<str(<<>>), str(<<"1", "a", "1">>)>>),
     op_shr(any_chr, op_or(str(<<"a", "b">>), str(<<"a", "a">>))),
     seq(<<alpha, alphanum, blank>>),
     many(first(<<lower, upper, not_of({"1", "'"})>>)),
     op_shr(space, one_of({"a", "1"})),
     parse_from_string(json_boolean),
     parse_from_string(variant_parser(<<many1(digit), identifier>>)),
     many_exhaust(digit),
     op_shr(blanks, many_exhaust(seq(<<digit, chr("a")>>))),
     many(blanks),
     exhaust(many1(blanks)),
     parse_int,
     parse_ip_address,
     seq(<<op_or(chr("1"), str(<<"1", "a">>)), chr("1")>>),
     seq(<<variant_parser(<<digit, str(<<"1", "a">>)>>), chr("1")>>) >>

(***************************************************************************)
(* Actions                                                                 *)
(***************************************************************************)
Top == stack[Len(stack)]

Running == main = "running" /\ abort = "none" /\ Len(stack) >= 1

\* The topmost coroutine is executing its body.
Active == Running /\ ~Top.susp /\ Len(Top.sub) = 0

\* The inputs the parser t is run on.
InputsOf(t) ==
  IF t.k \in {"parse_int", "parse_ip_address"} THEN Inputs \cup IntInputs
  ELSE Inputs

Init ==
  /\ g \in 1..Len(Grammars)
  /\ input \in InputsOf(Grammars[g])
  /\ stack = <<>>
  /\ main = "construct"
  /\ result = <<>>
  /\ abort = "none"
  /\ step = "init"
  /\ reach = 0
  /\ maxFail = 0
  /\ calls = <<>>
  /\ prev = <<>>

\* Mutant: the index is taken from what the parser consumed.
error_index_consumed(p) == p.consumed_ - 1

\* run_parser: the buffer index handed to ErrorPos::from_index.
error_index(p) == p.farthest_ - 1

\* The caller evaluates the parser expression it passes to run_parser.
MainConstruct ==
  /\ main = "construct"
  /\ stack' = <<New(Grammars[g])>>
  /\ main' = "resume"
  /\ step' = "main_construct"
  /\ UNCHANGED <<input, g, result, abort, reach, maxFail, calls, prev>>

\* run_parser: p.resume( in )
RunParserResume ==
  /\ main = "resume"
  /\ stack' = <<resume(stack[1], input)>>
  /\ main' = "running"
  /\ step' = "run_parser_resume"
  /\ UNCHANGED <<input, g, result, abort, reach, maxFail, calls, prev>>

\* Mutant: run_parser rejects a parse that has left input unconsumed.
RunParserReturn_exhaustive ==
  /\ Running /\ Len(stack) = 1 /\ Top.susp
  /\ IF ~finished(Top)
     THEN /\ abort' = "run_parser: p.finished()"
          /\ UNCHANGED <<main, result>>
     ELSE /\ result' =
               IF is_error(Top) \/ Len(Top.in_) > 0
               THEN <<[r   |-> result_error("input left"),
                       idx |-> <<error_index(Top)>>]>>
               ELSE <<[r |-> Top.o_[1], idx |-> <<>>]>>
          /\ main' = "done"
          /\ UNCHANGED abort
  /\ step' = "run_parser_return"
  /\ UNCHANGED <<input, g, stack, reach, maxFail, calls, prev>>

\* run_parser: after p.resume( in ) has returned.
RunParserReturn ==
  /\ Running /\ Len(stack) = 1 /\ Top.susp
  /\ IF ~finished(Top)
     THEN /\ abort' = "run_parser: p.finished()"
          /\ UNCHANGED <<main, result>>
     ELSE /\ result' =
               IF is_error(Top)
               THEN <<[r   |-> result_error(Top.o_[1].err),
                       idx |-> <<error_index(Top)>>]>>
               ELSE <<[r |-> Top.o_[1], idx |-> <<>>]>>
          /\ main' = "done"
          /\ UNCHANGED abort
  /\ step' = "run_parser_return"
  /\ UNCHANGED <<input, g, stack, reach, maxFail, calls, prev>>

\* A call of a parser-returning function in the body of the running
\* coroutine: the new coroutine is created suspended at initial_suspend.
Construct ==
  /\ Active
  /\ LET n == Len(stack)
         f == stack[n]
         o == Body(stack, n)
     IN  /\ o.op = "await" /\ o.create
         /\ Len(f.log) < MaxAttempts
         /\ stack' = [stack EXCEPT ![n] =
                        [f EXCEPT !.sub   = o.obj,
                                  !.args  = TakeArg(f.args, o.arg),
                                  !.loc   = o.loc,
                                  !.pc    = o.pc,
                                  !.awarg = o.arg]]
  /\ step' = "construct"
  /\ UNCHANGED <<input, g, main, result, abort, reach, maxFail, calls, prev>>

\* await_transform( parser<U> ) / await_transform( try_<P> ) of a parser
\* the coroutine already owns.
AwaitTransform ==
  /\ Active
  /\ LET n == Len(stack)
         f == stack[n]
         o == Body(stack, n)
     IN  /\ o.op = "await" /\ ~o.create /\ Len(o.obj) = 1
         /\ stack' = [stack EXCEPT ![n] =
                        [f EXCEPT !.sub   = o.obj,
                                  !.args  = TakeArg(f.args, o.arg),
                                  !.loc   = o.loc,
                                  !.pc    = o.pc,
                                  !.awarg = o.arg]]
  /\ step' = "await_transform"
  /\ UNCHANGED <<input, g, main, result, abort, reach, maxFail, calls, prev>>

\* awaitable::await_ready up to parser_.resume( promise_->buffer() ).
Resume ==
  /\ Running /\ ~Top.susp /\ Len(Top.sub) = 1
  /\ LET n     == Len(stack)
         f     == stack[n]
         child == f.sub[1]
     IN  IF finished(child)
         THEN /\ abort' = "await_ready: !parser_.finished()"
              /\ UNCHANGED stack
         ELSE /\ stack' = Append([stack EXCEPT ![n].sub = <<>>],
                                 resume(child, f.in_))
              /\ UNCHANGED abort
  /\ step' = "resume"
  /\ UNCHANGED <<input, g, main, result, reach, maxFail, calls, prev>>

\* The sub-parser has suspended and control is back in the awaiting
\* coroutine, inside await_ready.
Returned == Running /\ Len(stack) >= 2 /\ Top.susp

Pop(par, child, newpar) ==
  Append(SubSeq(stack, 1, Len(stack) - 2),
         [newpar EXCEPT !.log = Logged(par, child, newpar)])

\* awaitable: the parser failed: await_ready returns false, await_suspend.
AwaitSuspend ==
  /\ Returned
  /\ LET n     == Len(stack)
         child == stack[n]
         par   == stack[n - 1]
     IN  /\ ~child.istry
         /\ ~is_good(child)
         /\ IF ~finished(child)
            THEN /\ abort' = "await_ready: parser_.finished()"
                 /\ UNCHANGED stack
            ELSE /\ stack' =
                      LET np == awaitable_await_suspend(
                                  awaitable_await_ready(par, child), child)
                      IN  Pop(par, child, np)
                 /\ UNCHANGED abort
  /\ step' = "await_suspend"
  /\ UNCHANGED <<input, g, main, result, reach, maxFail, calls, prev>>

\* awaitable: the parser succeeded: await_ready returns true, await_resume.
AwaitResume ==
  /\ Returned
  /\ LET n     == Len(stack)
         child == stack[n]
         par   == stack[n - 1]
         rdy   == awaitable_await_ready(par, child)
     IN  /\ ~child.istry
         /\ is_good(child)
         /\ IF chars_consumed(rdy, child) < 0
            THEN /\ abort' = "await_resume: chars_consumed >= 0"
                 /\ UNCHANGED stack
            ELSE /\ stack' = Pop(par, child,
                                 awaitable_await_resume(rdy, child))
                 /\ UNCHANGED abort
  /\ step' = "await_resume"
  /\ UNCHANGED <<input, g, main, result, reach, maxFail, calls, prev>>

\* tryable_awaitable: await_ready always returns true, then its
\* await_resume.
TryAwaitResume ==
  /\ Returned
  /\ LET n     == Len(stack)
         child == stack[n]
         par   == stack[n - 1]
         rdy   == awaitable_await_ready(par, child)
     IN  /\ child.istry
         /\ IF ~finished(child)
            THEN /\ abort' = "await_ready: parser_.finished()"
                 /\ UNCHANGED stack
            ELSE IF is_good(child) /\ chars_consumed(rdy, child) < 0
            THEN /\ abort' = "await_resume: chars_consumed >= 0"
                 /\ UNCHANGED stack
            ELSE /\ stack' = Pop(par, child,
                                 tryable_await_resume(rdy, child))
                 /\ UNCHANGED abort
  /\ step' = "try_await_resume"
  /\ UNCHANGED <<input, g, main, result, reach, maxFail, calls, prev>>

\* co_await builtin_next_char{}
BuiltinNextChar ==
  /\ Active
  /\ LET n == Len(stack)
         f == stack[n]
         o == Body(stack, n)
     IN  /\ o.op = "next_char"
         /\ IF next_char_await_ready(f)
            THEN LET nf == [next_char_await_resume(f) EXCEPT !.pc = o.pc]
                 IN  /\ stack' = [stack EXCEPT ![n] = nf]
                     /\ reach' = Max(reach, Base(stack, n) + nf.consumed_)
                     /\ UNCHANGED maxFail
            ELSE /\ stack' = [stack EXCEPT ![n] = next_char_await_suspend(f)]
                 /\ maxFail' = Max(maxFail, Base(stack, n) + f.consumed_)
                 /\ UNCHANGED reach
  /\ step' = "next_char"
  /\ UNCHANGED <<input, g, main, result, abort, calls, prev>>

\* co_await builtin_blanks{}, builtin_identifier{}, ...
BuiltinAwait ==
  /\ Active
  /\ LET n   == Len(stack)
         f   == stack[n]
         o   == Body(stack, n)
     IN  /\ o.op = "builtin"
         /\ LET res == try_parse(o.name, f.in_)
            IN  IF Len(res) = 1
                THEN LET nf == [builtin_await_ready(f, res[1])
                                  EXCEPT !.pc = o.pc]
                     IN  /\ stack' = [stack EXCEPT ![n] = nf]
                         /\ reach' = Max(reach, Base(stack, n) + nf.consumed_)
                         /\ UNCHANGED maxFail
                ELSE /\ stack' = [stack EXCEPT ![n] =
                                    builtin_await_suspend(f, builtin_err(o.name))]
                     /\ maxFail' = Max(maxFail, Base(stack, n) + f.consumed_)
                     /\ UNCHANGED reach
  /\ step' = "builtin"
  /\ UNCHANGED <<input, g, main, result, abort, calls, prev>>

\* co_await fail( msg )
Fail ==
  /\ Active
  /\ LET n == Len(stack)
         f == stack[n]
         o == Body(stack, n)
     IN  /\ o.op = "fail"
         /\ stack' = [stack EXCEPT ![n] = await_transform_fail(f, o.msg)]
         /\ maxFail' = Max(maxFail, Base(stack, n) + f.consumed_)
  /\ step' = "fail"
  /\ UNCHANGED <<input, g, main, result, abort, reach, calls, prev>>

\* assert( false ) is reached in the body of the running coroutine.
AssertFalse ==
  /\ Active
  /\ LET o == Body(stack, Len(stack))
     IN  /\ o.op = "assert_false"
         /\ abort' = o.where
  /\ step' = "assert_false"
  /\ UNCHANGED <<input, g, stack, main, result, reach, maxFail, calls, prev>>

\* co_return (or the end of a parser<> body), then final_suspend.
Return ==
  /\ Active
  /\ LET n == Len(stack)
         f == stack[n]
         o == Body(stack, n)
     IN  /\ o.op = "return"
         /\ IF finished(f)
            THEN /\ abort' = "return_value_: !o_"
                 /\ UNCHANGED stack
            ELSE /\ stack' =
                      [i \in 1..n |->
                         IF i = n THEN return_value_(f, o.val)
                         ELSE IF i = n - 1 /\ o.setcap
                              THEN [stack[i] EXCEPT !.loc = o.cap]
                              ELSE stack[i]]
                 /\ UNCHANGED abort
         /\ calls' = IF finished(f) THEN calls ELSE calls \o o.call
  /\ step' = "return"
  /\ UNCHANGED <<input, g, main, result, reach, maxFail, prev>>

\* The grammars many1( f ) whose many( f ) is a grammar as well.
HasManyTwin(i) ==
  /\ Grammars[i].k = "many1"
  /\ \E j \in 1..Len(Grammars) :
       Grammars[j].k = "many" /\ Grammars[j].f = Grammars[i].f

ManyTwin(i) ==
  CHOOSE j \in 1..Len(Grammars) :
    Grammars[j].k = "many" /\ Grammars[j].f = Grammars[i].f

\* The caller runs a second parser over the same input: after
\* run_parser( many1( f ) ) has returned it calls run_parser( many( f ) ),
\* keeping what the first call gave.
RunParserAgain ==
  /\ main = "done"
  /\ Len(prev) = 0
  /\ HasManyTwin(g)
  /\ prev' = <<[p         |-> stack[1].p,
                r         |-> stack[1].o_[1],
                consumed  |-> stack[1].consumed_,
                in        |-> stack[1].in_]>>
  /\ g' = ManyTwin(g)
  /\ stack' = <<>>
  /\ main' = "construct"
  /\ result' = <<>>
  /\ reach' = 0
  /\ maxFail' = 0
  /\ calls' = <<>>
  /\ step' = "run_parser_again"
  /\ UNCHANGED <<input, abort>>

Next ==
  \/ MainConstruct
  \/ RunParserResume
  \/ RunParserReturn
  \/ Construct
  \/ AwaitTransform
  \/ Resume
  \/ AwaitSuspend
  \/ AwaitResume
  \/ TryAwaitResume
  \/ BuiltinNextChar
  \/ BuiltinAwait
  \/ Fail
  \/ Return
  \/ AssertFalse
  \/ RunParserAgain

Spec == Init /\ [][Next]_vars

\* The combinators that loop over an element parser.
ManyKinds ==
  {"many", "many1", "many_exhaust",
   "interleave", "interleave_first", "interleave_last"}

\* The parser t is a parser that loops, or exhaust of one.
RECURSIVE DrivesMany(_)
DrivesMany(t) ==
  \/ t.k \in ManyKinds
  \/ t.k = "exhaust" /\ DrivesMany(t.ps[1])

\* The parses of the looping parsers.  A coroutine that can take a step
\* takes it: resuming a handle runs the coroutine until it suspends, nothing
\* else is scheduled.
ManyInit == Init /\ DrivesMany(Grammars[g])

ManySpec == ManyInit /\ [][Next]_vars /\ WF_vars(Next)

(***************************************************************************)
(* Properties                                                              *)
(***************************************************************************)
\* The coroutine that is awaiting the topmost one, the topmost one, and the
\* awaiting coroutine in the next state, when the co_await completes.
Awaiter == stack[Len(stack) - 1]

Awaited == stack[Len(stack)]

AwaiterNext == stack'[Len(stack) - 1]

\* The co_await of the topmost coroutine completes in this step.
Completes == Returned /\ Len(stack') = Len(stack) - 1

\* The awaited parser was driven at the cursor its awaiter still has: its
\* own buffer is the awaiter's buffer less what it consumed itself.
DrivenAtCursor(par, child) ==
  /\ Len(par.in_) = child.consumed_ + Len(child.in_)
  /\ child.in_ = SubSeq(par.in_, child.consumed_ + 1, Len(par.in_))

LastLog(f) == f.log[Len(f.log)]

\* C1: when the parser awaited through try_ has failed, the awaiting
\* coroutine's buffer and consumed count are exactly those the parser was
\* driven at, the co_await yields a result without a value, the awaiting
\* coroutine is not finished and goes on running, and its farthest_ is not
\* below what it was.
C1_TryFailureIsCursorNeutral ==
  [][ (Completes /\ Awaited.istry /\ is_error(Awaited)) =>
        /\ DrivenAtCursor(Awaiter, Awaited)
        /\ AwaiterNext.in_ = Awaiter.in_
        /\ AwaiterNext.consumed_ = Awaiter.consumed_
        /\ ~has_value(AwaiterNext.got)
        /\ AwaiterNext.got.err = Awaited.o_[1].err
        /\ ~finished(AwaiterNext)
        /\ ~AwaiterNext.susp
        /\ AwaiterNext.pc = Awaiter.pc
        /\ AwaiterNext.farthest_ >= Awaiter.farthest_ ]_vars

\* A try_ attempt that had consumed characters before it failed has been
\* refunded and its awaiter runs on.
C1_Witness ==
  /\ step = "try_await_resume"
  /\ abort = "none"
  /\ Len(Top.log) > 0
  /\ LastLog(Top).try
  /\ ~has_value(LastLog(Top).r)
  /\ LastLog(Top).cons > 0
  /\ LastLog(Top).adv = 0
  /\ ~finished(Top)

\* C2: when a parser succeeds having consumed n characters, the co_await
\* yields its value and advances the awaiting coroutine's cursor by n, with
\* try_ (the value wrapped in a result) exactly as without.
C2_TrySuccessLikePlainAwait ==
  [][ (Completes /\ is_good(Awaited)) =>
        /\ DrivenAtCursor(Awaiter, Awaited)
        /\ AwaiterNext.in_ = Awaited.in_
        /\ AwaiterNext.consumed_ = Awaiter.consumed_ + Awaited.consumed_
        /\ ~finished(AwaiterNext)
        /\ IF Awaited.istry
           THEN AwaiterNext.got = result_value(Awaited.o_[1].val[1])
           ELSE AwaiterNext.got = Awaited.o_[1].val[1] ]_vars

\* A try_ attempt succeeded and its characters stay consumed.
C2_Witness ==
  /\ step = "try_await_resume"
  /\ abort = "none"
  /\ Len(Top.log) > 0
  /\ LastLog(Top).try
  /\ has_value(LastLog(Top).r)
  /\ LastLog(Top).cons > 0
  /\ LastLog(Top).adv = LastLog(Top).cons
  /\ Top.got = LastLog(Top).r

\* A coroutine that holds an outcome has stopped for good: while it exists
\* nothing about it changes.
FinishedIsFrozen ==
  \A i \in 1..Len(stack) :
    (finished(stack[i]) /\ i <= Len(stack')) =>
      /\ stack'[i].o_ = stack[i].o_
      /\ stack'[i].pc = stack[i].pc
      /\ stack'[i].in_ = stack[i].in_
      /\ stack'[i].consumed_ = stack[i].consumed_
      /\ Held(stack'[i]) = Held(stack[i])
      /\ Len(stack'[i].sub) = 0
      /\ Len(stack') = Len(stack)

\* C3: when a parser awaited without try_ has failed, the awaiting coroutine
\* is finished at once with the same error, keeps the cursor it had (nothing
\* is rolled back, nothing of the failed parser is charged), drives none of
\* the parsers it still owns and never runs again; and whoever awaits a failed
\* parser, with or without try_, keeps its cursor.
C3_FailurePropagates ==
  [][ /\ (Completes /\ is_error(Awaited)) =>
           /\ AwaiterNext.in_ = Awaiter.in_
           /\ AwaiterNext.consumed_ = Awaiter.consumed_
           /\ ~Awaited.istry =>
                /\ is_error(AwaiterNext)
                /\ AwaiterNext.o_[1].err = Awaited.o_[1].err
                /\ AwaiterNext.susp
                /\ AwaiterNext.pc = Awaiter.pc
                /\ Held(AwaiterNext) = Held(Awaiter)
                /\ Len(AwaiterNext.sub) = 0
      /\ FinishedIsFrozen ]_vars

\* A sequence failed in a parser that is not its last: the later ones are
\* still owned, undriven.
C3_Witness ==
  /\ step = "await_suspend"
  /\ abort = "none"
  /\ is_error(Top)
  /\ Top.o_[1].err = "expected 'a'"
  /\ Held(Top) # {}
  /\ Top.consumed_ > 0

\* C4: co_await fail( message ) finishes the running coroutine with an
\* error whose text is exactly message, leaves its cursor where it was, and
\* suspends it for good so that nothing after it runs; the error then
\* reaches whoever awaits the coroutine (or run_parser's caller) unchanged.
C4_FailShortCircuits ==
  [][ /\ Fail =>
           /\ Body(stack, Len(stack)).op = "fail"
           /\ is_error(stack'[Len(stack)])
           /\ stack'[Len(stack)].o_[1].err = Body(stack, Len(stack)).msg
           /\ stack'[Len(stack)].in_ = Top.in_
           /\ stack'[Len(stack)].consumed_ = Top.consumed_
           /\ stack'[Len(stack)].pc = Top.pc
           /\ stack'[Len(stack)].susp
           /\ Len(stack') = Len(stack)
      /\ (step = "fail" /\ step' # "fail") =>
           /\ is_error(Top)
           /\ Top.susp
           /\ \/ /\ AwaitSuspend
                 /\ AwaiterNext.o_[1].err = Top.o_[1].err
              \/ /\ TryAwaitResume
                 /\ AwaiterNext.got = result_error(Top.o_[1].err)
                 /\ AwaiterNext.consumed_ = Awaiter.consumed_
              \/ /\ RunParserReturn
                 /\ result'[1].r = result_error(Top.o_[1].err)
      /\ step = "fail" => step' # "fail" ]_vars

\* chr( 'a' ) has read a character that is not 'a' and failed with its own
\* message; the characters it read are not part of its awaiter's cursor.
C4_Witness ==
  /\ step = "await_suspend"
  /\ abort = "none"
  /\ LastLog(Top).k = "chr"
  /\ LastLog(Top).r = result_error("expected 'a'")
  /\ LastLog(Top).cons = 1
  /\ LastLog(Top).adv = 0
  /\ Top.o_ = <<result_error("expected 'a'")>>

\* The frames that exist before and after a step.
Common == 1..(IF Len(stack) < Len(stack') THEN Len(stack) ELSE Len(stack'))

\* The stack with every farthest_ wiped.
NoFarthest == [i \in 1..Len(stack) |-> [stack[i] EXCEPT !.farthest_ = 0]]

C6_FarthestCoversEveryFailure ==
  main = "done" => stack[1].farthest_ >= maxFail

\* The parse succeeded although an attempt failed beyond the end of what
\* was finally consumed.
C6_Witness ==
  /\ main = "done"
  /\ is_good(stack[1])
  /\ maxFail > stack[1].consumed_
  /\ stack[1].farthest_ >= maxFail
  /\ maxFail >= 2

\* The number of digits the input starts with.
RECURSIVE LeadingDigits(_)
LeadingDigits(s) ==
  IF Len(s) = 0 \/ ~is_digit(s[1]) THEN 0 ELSE 1 + LeadingDigits(Tail(s))

RECURSIVE Fresh(_)
Fresh(o) ==
  /\ o.susp
  /\ o.pc = 0
  /\ Len(o.o_) = 0
  /\ Len(o.in_) = 0
  /\ o.consumed_ = 0
  /\ o.farthest_ = 0
  /\ o.writes = 0
  /\ Len(o.log) = 0
  /\ Len(o.sub) = 0
  /\ \A j \in 1..Len(o.args) : Len(o.args[j]) = 1 /\ Fresh(o.args[j][1])

\* Every parser some coroutine owns and has not handed to a co_await yet.
AllHeldFresh ==
  \A i \in 1..Len(stack) : \A j \in Held(stack[i]) : Fresh(stack[i].args[j][1])

\* C8: constructing a parser runs none of it: the new object is suspended at
\* its start with no outcome and nothing consumed, and the constructing
\* coroutine's cursor, farthest_ and outcome are what they were; a parser
\* that is owned but never driven stays so until it is discarded with its
\* owner, whose outcome and cursor are settled without it.
C8_ConstructionDoesNothing ==
  [][ /\ MainConstruct => Fresh(stack'[1])
      /\ Construct =>
           /\ Len(stack') = Len(stack)
           /\ Len(stack'[Len(stack)].sub) = 1
           /\ Fresh([stack'[Len(stack)].sub[1] EXCEPT !.istry = FALSE])
           /\ stack'[Len(stack)].in_ = Top.in_
           /\ stack'[Len(stack)].consumed_ = Top.consumed_
           /\ stack'[Len(stack)].farthest_ = Top.farthest_
           /\ stack'[Len(stack)].o_ = Top.o_
           /\ ~stack'[Len(stack)].susp
           /\ reach' = reach /\ maxFail' = maxFail /\ result' = result
      /\ AllHeldFresh
      /\ (Completes /\ Held(Awaited) # {}) =>
           /\ \A j \in Held(Awaited) : Fresh(Awaited.args[j][1])
           /\ AwaiterNext.consumed_ =
                Awaiter.consumed_ +
                  (IF is_good(Awaited) THEN Awaited.consumed_ ELSE 0)
    ]_vars

\* first: an earlier alternative has matched, so the coroutine made for the
\* next one returned without driving it, and the alternative is discarded.
C8_Witness ==
  /\ step = "await_resume"
  /\ abort = "none"
  /\ Top.p.k = "first"
  /\ LastLog(Top).k = "one"
  /\ LastLog(Top).left # {}
  /\ LastLog(Top).cons = 0
  /\ Len(Top.loc) = 1

\* What the assertions of the engine and the one-shot discipline say of
\* the coroutines that exist.
EngineAssertions ==
  {"run_parser: p.finished()", "await_ready: !parser_.finished()",
   "await_ready: parser_.finished()", "await_resume: chars_consumed >= 0",
   "return_value_: !o_"}

OneShot ==
  /\ abort \notin EngineAssertions
  /\ \A i \in 1..Len(stack) :
       /\ stack[i].writes <= 1
       /\ finished(stack[i]) <=> stack[i].writes = 1
       /\ finished(stack[i]) => (i = Len(stack) /\ stack[i].susp)
       /\ (stack[i].susp /\ main \in {"running", "done"}) =>
            finished(stack[i])
       /\ Len(stack[i].sub) = 1 =>
            (~finished(stack[i].sub[1]) /\ stack[i].sub[1].susp)
       /\ i < Len(stack) => (~stack[i].susp /\ Len(stack[i].sub) = 0)

\* C9: a parser is resumed only from its initial suspend point, so at most
\* once; it is not finished before it is resumed and is finished when the
\* resume returns; return_value_ and return_void_ find no outcome stored;
\* no assertion of the engine fails; and each coroutine's outcome is written
\* once, by the step that finishes it.
C9_DrivenOnceOutcomeOnce ==
  [][ /\ OneShot /\ OneShot'
      /\ Resume => /\ Fresh([Top.sub[1] EXCEPT !.istry = FALSE])
                   /\ Len(stack') = Len(stack) + 1
      /\ RunParserResume => Fresh(stack[1])
      /\ Return => /\ ~finished(Top)
                   /\ stack'[Len(stack)].writes = 1
      /\ Returned => finished(Top)
      /\ \A i \in Common :
           /\ stack'[i].writes >= stack[i].writes
           /\ stack[i].writes = 1 => stack'[i].o_ = stack[i].o_
    ]_vars

\* A parser three coroutines deep has just been resumed, the two above it
\* are running and unfinished.
C9_Witness ==
  /\ step = "resume"
  /\ abort = "none"
  /\ Len(stack) >= 3
  /\ ~Top.susp
  /\ Top.in_ = stack[Len(stack) - 1].in_
  /\ stack[1].consumed_ > 0

\* The characters consumed by the first n sub-parsers of a coroutine.
RECURSIVE SumCons(_, _)
SumCons(L, n) == IF n = 0 THEN 0 ELSE SumCons(L, n - 1) + L[n].cons

\* The characters by which the first n co_awaits of a coroutine advanced it.
RECURSIVE SumAdv(_, _)
SumAdv(L, n) == IF n = 0 THEN 0 ELSE SumAdv(L, n - 1) + L[n].adv

SeqKinds == {"seq", "seq_last", "seq_first"}

\* What a finished sequence coroutine f has done.
SeqDone(f) ==
  LET L == f.log
      N == Len(f.p.ps)
      n == Len(L)
      wrapped(j) == f.p.ps[j].k = "try_"
      ok(j)      == wrapped(j) \/ has_value(L[j].r)
      value(j)   == IF wrapped(j) THEN L[j].r ELSE L[j].r.val[1]
  IN  /\ n >= 1 /\ n <= N
      /\ \A j \in 1..n :
           /\ L[j].arg = j
           /\ L[j].k = (IF wrapped(j) THEN f.p.ps[j].p.k ELSE f.p.ps[j].k)
           /\ L[j].try = wrapped(j)
           /\ L[j].at = SumAdv(L, j - 1)
           /\ L[j].adv = (IF has_value(L[j].r) THEN L[j].cons ELSE 0)
           /\ j < n => ok(j)
      /\ Held(f) = (n + 1)..N
      /\ is_good(f) <=> (n = N /\ ok(n))
      /\ is_error(f) =>
           /\ ~has_value(L[n].r)
           /\ f.o_[1].err = L[n].r.err
           /\ f.consumed_ = SumAdv(L, n - 1)
      /\ is_good(f) =>
           /\ f.consumed_ = SumAdv(L, N)
           /\ Len(f.in_) = Len(input) - Base(stack, Len(stack)) - SumAdv(L, N)
           /\ CASE f.p.k = "seq" ->
                     f.o_[1].val[1] = [j \in 1..N |-> value(j)]
                [] f.p.k = "seq_first" -> f.o_[1].val[1] = value(1)
                [] f.p.k = "seq_last" -> f.o_[1].val[1] = value(N)

\* C10: seq, seq_first and seq_last (and >>, <<) drive their parsers from
\* the first to the last, each from where the one before stopped; they
\* succeed iff all succeed, with all the values, the first or the last, and
\* having consumed the sum of what the parsers consumed; when the i-th fails
\* they fail with its error and the parsers after it are never driven.
C10_SequencesLeftToRight ==
  (Running /\ Top.p.k \in SeqKinds /\ finished(Top)) => SeqDone(Top)

\* seq( digit, blanks, identifier ) has matched "1 a".
C10_Witness ==
  /\ Running
  /\ Top.p.k = "seq"
  /\ is_good(Top)
  /\ Len(Top.log) = 3
  /\ Top.consumed_ = 3
  /\ Top.o_[1].val[1] = <<"1", <<" ">>, <<"a">>>>

\* What a finished Invoke::run coroutine f has done.
InvokeDone(f) ==
  LET L == f.log
      N == Len(f.p.ps)
      n == Len(L)
  IN  /\ n >= 1 /\ n <= N
      /\ \A j \in 1..n :
           /\ L[j].arg = j
           /\ L[j].k = "invoke_run_parser"
           /\ L[j].at = SumCons(L, j - 1)
           /\ j < n => has_value(L[j].r)
      /\ Held(f) = (n + 1)..N
      /\ is_good(f) <=> (n = N /\ has_value(L[n].r))
      /\ is_error(f) =>
           /\ ~has_value(L[n].r)
           /\ f.o_[1].err = L[n].r.err
      /\ is_good(f) =>
           /\ f.consumed_ = SumCons(L, N)
           /\ f.o_[1].val[1] =
                apply(f.p.func, [j \in 1..N |-> L[j].inner[1].val[1]])

\* C11: invoke( func, ps... ) and emplace<T>( ps... ) drive the parsers in
\* the order of the parameter list; func (T's constructor) is called only by
\* the step that finishes the coroutine successfully, after all N parsers
\* succeeded, with their N results in positional order; it is called once
\* then and not at all when a parser failed.
C11_InvokeInOrderCallsOnce ==
  [][ /\ (Running /\ Top.p.k = "invoke" /\ finished(Top)) => InvokeDone(Top)
      /\ calls' # calls =>
           /\ Return
           /\ Top.p.k = "invoke"
           /\ Len(Top.log) = Len(Top.p.ps)
           /\ \A j \in 1..Len(Top.log) : has_value(Top.log[j].r)
           /\ is_good(stack'[Len(stack)])
           /\ calls' =
                Append(calls,
                       [fn   |-> Top.p.func,
                        args |-> [j \in 1..Len(Top.log) |->
                                    Top.log[j].inner[1].val[1]]])
      /\ (Return /\ Top.p.k = "invoke") => Len(calls') = Len(calls) + 1
      /\ (main' = "done" /\ stack[1].p.k = "invoke") =>
           Len(calls) = (IF is_good(stack[1]) THEN 1 ELSE 0)
    ]_vars

\* invoke( func, digit, blanks, identifier ) on "1 a": one call, func( '1',
\* " ", "a" ).
C11_Witness ==
  /\ main = "done"
  /\ stack[1].p.k = "invoke"
  /\ is_good(stack[1])
  /\ calls = <<[fn |-> "func", args |-> <<"1", <<" ">>, <<"a">>>>]>>
  /\ result[1].r = result_value(apply("func", <<"1", <<" ">>, <<"a">>>>))

\* What a finished Many coroutine f has done.
ManyDone(f) ==
  LET L == f.log
      n == Len(L)
  IN  /\ is_good(f)
      /\ n >= 1
      /\ \A j \in 1..n :
           /\ L[j].try
           /\ L[j].k = f.p.f.k
           /\ L[j].at = SumAdv(L, j - 1)
           /\ j < n => (has_value(L[j].r) /\ L[j].adv = L[j].cons)
      /\ ~has_value(L[n].r)
      /\ L[n].adv = 0
      /\ f.o_[1].val[1] = [j \in 1..(n - 1) |-> L[j].r.val[1]]
      /\ f.consumed_ = SumAdv(L, n - 1)
      /\ Len(f.in_) = Len(input) - Base(stack, Len(stack)) - SumAdv(L, n - 1)

\* C12: many( p ) never fails; its value is the values of the successive
\* successful attempts of p in order, it stops at the first attempt that
\* fails, and its cursor is where the last successful attempt ended: what
\* the failing attempt consumed is given back, the rest stays consumed.
C12_ManyCollectsUntilFailure ==
  (Running /\ Top.p.k = "many" /\ Top.susp /\ Len(stack) >= 1) =>
     ManyDone(Top)

\* many( seq( digit, chr( 'a' ) ) ) on "1a1": one element, and the second
\* attempt read the '1' and failed at the end of input.
C12_Witness ==
  /\ Running
  /\ Top.p.k = "many"
  /\ Top.p.f.k = "seq"
  /\ is_good(Top)
  /\ Len(Top.o_[1].val[1]) = 1
  /\ Top.consumed_ = 2
  /\ Len(Top.log) = 2
  /\ Top.log[2].cons = 1
  /\ Top.log[2].adv = 0

\* What a finished Many1 coroutine f has done: L[1] is its co_await of many,
\* L[1].inner the outcome of many's first attempt of the element parser.
Many1Done(f) ==
  LET L == f.log
  IN  /\ Len(L) = 1
      /\ L[1].k = "many"
      /\ ~L[1].try
      /\ L[1].at = 0
      /\ has_value(L[1].r)
      /\ Len(L[1].inner) = 1
      /\ is_error(f) <=> ~has_value(L[1].inner[1])
      /\ is_error(f) =>
           /\ f.o_[1].err = ""
           /\ f.consumed_ = 0
           /\ L[1].cons = 0
      /\ is_good(f) =>
           /\ Len(f.o_[1].val[1]) >= 1
           /\ f.o_[1].val[1] = L[1].r.val[1]
           /\ f.o_[1].val[1][1] = L[1].inner[1].val[1]
           /\ f.consumed_ = L[1].cons

\* C13: many1( p ) fails iff the first attempt of p, at the cursor many1
\* starts from, fails (nothing was collected); otherwise it succeeds with
\* the non-empty sequence many collected.
C13_Many1FailsIffFirstFails ==
  (Running /\ Top.p.k = "many1" /\ Top.susp) => Many1Done(Top)

\* many1( seq( digit, chr( 'a' ) ) ) after a blank, on " 11": the first
\* attempt read a digit, failed, and many1 fails having consumed nothing.
C13_Witness ==
  /\ Running
  /\ Top.p.k = "many1"
  /\ Len(stack) = 2
  /\ is_error(Top)
  /\ Top.consumed_ = 0
  /\ Top.farthest_ = 2
  /\ stack[1].consumed_ = 1

\* C14: whenever many1( p ) succeeds from a start cursor, many( p ) from the
\* same start cursor gives the same sequence of values and stops at the same
\* cursor: for two top-level runs over the same input, and for the many
\* that many1 itself drives at whatever cursor many1 was started.
C14_ManyAgreesWithMany1 ==
  /\ (main = "done" /\ Len(prev) = 1 /\ has_value(prev[1].r)) =>
       /\ prev[1].p = many1(stack[1].p.f)
       /\ stack[1].p.k = "many"
       /\ is_good(stack[1])
       /\ stack[1].o_[1].val[1] = prev[1].r.val[1]
       /\ stack[1].consumed_ = prev[1].consumed
       /\ stack[1].in_ = prev[1].in
  /\ (Running /\ Len(stack) >= 2 /\ Top.susp /\ Top.p.k = "many"
        /\ Awaiter.p.k = "many1") =>
       /\ Awaiter.consumed_ = 0
       /\ DrivenAtCursor(Awaiter, Top)
       /\ Top.p.f = Awaiter.p.f
  /\ (Running /\ Top.p.k = "many1" /\ is_good(Top)) =>
       /\ Top.o_[1].val[1] = Top.log[1].r.val[1]
       /\ Top.consumed_ = Top.log[1].cons
       /\ Top.log[1].k = "many"

\* "1a1" : many1( seq( digit, chr( 'a' ) ) ) gave one element and stopped
\* after two characters, and so did many( seq( digit, chr( 'a' ) ) ).
C14_Witness ==
  /\ main = "done"
  /\ Len(prev) = 1
  /\ has_value(prev[1].r)
  /\ prev[1].p.f.k = "seq"
  /\ prev[1].consumed = 2
  /\ Len(input) = 3
  /\ stack[1].p.k = "many"
  /\ Len(stack[1].o_[1].val[1]) = 1
  /\ stack[1].consumed_ = 2

\* In the log L of a First coroutine: the j-th lambda drove its alternative,
\* and the alternative succeeded.
Tried(L, j) == Len(L[j].inner) = 1

Matched(L, j) == Tried(L, j) /\ has_value(L[j].inner[1])

\* What a finished First coroutine f has done.
FirstDone(f) ==
  LET L == f.log
      N == Len(f.p.ps)
  IN  /\ Len(L) = N
      /\ \A j \in 1..N :
           /\ L[j].arg = j
           /\ L[j].k = "one"
           /\ has_value(L[j].r)
           /\ Tried(L, j) <=> (\A i \in 1..(j - 1) : ~Matched(L, i))
           /\ Tried(L, j) <=> L[j].left = {}
           /\ Tried(L, j) => L[j].at = 0
           /\ L[j].adv = (IF Matched(L, j) THEN L[j].cons ELSE 0)
      /\ is_good(f) <=> (\E j \in 1..N : Matched(L, j))
      /\ \A j \in 1..N :
           Matched(L, j) =>
             /\ f.o_[1].val[1] = L[j].inner[1].val[1]
             /\ f.consumed_ = L[j].cons
             /\ L[j].cons = SumAdv(L, N)

\* C15: first( A1..An ) and operator| attempt the alternatives in declared
\* order, each through try_ and from first's own start cursor; the value and
\* the advance are those of the first alternative that succeeds, and no
\* alternative after that one is ever driven, so of two alternatives that
\* both match the earlier one gives the result.
C15_FirstIsLeftBiased ==
  /\ (Running /\ Top.p.k = "first" /\ Top.susp) => FirstDone(Top)
  /\ (Running /\ Top.p.k = "one" /\ Top.susp) =>
       /\ is_good(Top)
       /\ Len(Top.log) <= 1
       /\ Len(Top.log) = 1 =>
            /\ Top.log[1].try
            /\ Top.log[1].at = 0
            /\ Top.log[1].arg = 1
            /\ Len(Awaiter.loc) = (IF has_value(Top.log[1].r) THEN 1 ELSE 0)
       /\ Len(Top.log) = 0 => (Held(Top) = {1} /\ Len(Awaiter.loc) = 1)

\* first( seq( digit, digit ), digit, any_chr ) on two digits: all three
\* alternatives match, the result is the pair of the first one and the
\* other two were not driven.
C15_Witness ==
  /\ Running
  /\ Top.p.k = "first"
  /\ Top.p.ps[1].k = "seq"
  /\ is_good(Top)
  /\ Top.o_[1].val[1] = <<"1", "1">>
  /\ Top.consumed_ = 2
  /\ Top.log[2].left = {1}
  /\ Top.log[3].left = {1}

\* C16: when every alternative of first( A1..An ) has failed, first fails
\* with the message-less error of fail(), whatever the alternatives'
\* messages were (none of them is kept), and it has consumed nothing: its
\* buffer and consumed_ are those it was started with.
C16_FirstFailsGenerically ==
  (Running /\ Top.p.k = "first" /\ Top.susp) =>
     /\ finished(Top)
     /\ is_error(Top) <=>
          (\A j \in 1..Len(Top.log) :
             Tried(Top.log, j) /\ ~Matched(Top.log, j))
     /\ is_error(Top) =>
          /\ Top.o_[1].err = ""
          /\ Len(Top.log) = Len(Top.p.ps)
          /\ \A j \in 1..Len(Top.log) :
               Top.log[j].inner[1].err # "" =>
                 Top.o_[1].err # Top.log[j].inner[1].err
          /\ Top.consumed_ = 0
          /\ Len(Top.in_) = Len(input) - Base(stack, Len(stack))
          /\ \A j \in 1..Len(Top.log) : Top.log[j].adv = 0

\* digit >> ( str( "a1" ) | chr( '1' ) ) on a digit and a blank: both
\* alternatives read the blank and failed with their own message, first
\* fails without a message and where it started.
C16_Witness ==
  /\ Running
  /\ Top.p.k = "first"
  /\ Len(stack) >= 2
  /\ is_error(Top)
  /\ Top.o_[1].err = ""
  /\ Top.log[1].inner[1].err = "expected 'a'"
  /\ Top.log[2].inner[1].err = "expected '1'"
  /\ Top.log[1].far = 1
  /\ Top.farthest_ = 1
  /\ Top.consumed_ = 0
  /\ Base(stack, Len(stack)) = 1

\* What a finished VariantParser coroutine f has done.
VariantDone(f) ==
  LET L == f.log
      N == Len(f.p.alts)
  IN  /\ Len(L) = N
      /\ \A j \in 1..N :
           /\ L[j].k = "variant_one"
           /\ has_value(L[j].r)
           /\ Tried(L, j) <=> (\A i \in 1..(j - 1) : ~Matched(L, i))
           /\ Tried(L, j) => L[j].at = 0
           /\ L[j].adv = (IF Matched(L, j) THEN L[j].cons ELSE 0)
      /\ is_good(f) <=> (\E j \in 1..N : Matched(L, j))
      /\ is_error(f) => (f.o_[1].err = "" /\ f.consumed_ = 0)
      /\ \A j \in 1..N :
           Matched(L, j) =>
             /\ f.o_[1].val[1].index = j
             /\ f.o_[1].val[1].v = L[j].inner[1].val[1]
             /\ f.consumed_ = L[j].cons

\* C17: the variant parser attempts the candidates in the order of the
\* variant's types, each through try_ and from its own start cursor; it
\* succeeds with the first candidate that succeeds, attempts (and builds)
\* none after it, and fails iff none succeeds.
C17_VariantInDeclaredOrder ==
  /\ (Running /\ Top.p.k = "variant" /\ Top.susp) => VariantDone(Top)
  /\ (Running /\ Top.p.k = "variant_one" /\ Top.susp) =>
       /\ is_good(Top)
       /\ Top.p = Variant_one(Awaiter.p.alts[Awaiter.pc], Awaiter.pc)
       /\ Len(Top.log) <= 1
       /\ Len(Top.log) = 1 =>
            /\ Top.log[1].try
            /\ Top.log[1].at = 0
            /\ Top.log[1].k = Top.p.alt.k
            /\ Len(Awaiter.loc) = (IF has_value(Top.log[1].r) THEN 1 ELSE 0)
       /\ Len(Top.log) = 0 => Len(Awaiter.loc) = 1

\* Over { digits, boolean, string } the input "true" gives the second
\* candidate's boolean true; the third candidate was not attempted.
C17_Witness ==
  /\ main = "done"
  /\ input = <<"t", "r", "u", "e">>
  /\ stack[1].p.k = "variant"
  /\ is_good(stack[1])
  /\ stack[1].o_[1].val[1] = variant_value(2, TRUE)
  /\ Tried(stack[1].log, 1)
  /\ ~Matched(stack[1].log, 1)
  /\ Matched(stack[1].log, 2)
  /\ ~Tried(stack[1].log, 3)
  /\ stack[1].consumed_ = 4

\* The buffer the coroutine on top of the stack was driven with.
TopInput == SubSeq(input, Base(stack, Len(stack)) + 1, Len(input))

\* The number of (digit, c) pairs the buffer s starts with.
RECURSIVE NumPairs(_, _)
NumPairs(s, c) ==
  IF Len(s) >= 2 /\ is_digit(s[1]) /\ s[2] = c
  THEN 1 + NumPairs(SubSeq(s, 3, Len(s)), c)
  ELSE 0

\* The coroutine on top of the stack is a finished `kind` over digit
\* primaries and a chr separator, with the given sep_required.
InterleaveOfDigits(kind, sep_required) ==
  /\ Running
  /\ Top.susp
  /\ finished(Top)
  /\ Top.p.k = kind
  /\ Top.p.sep_required = sep_required
  /\ Top.p.f = digit
  /\ Top.p.g.k = "chr"

\* C18: interleave( f, g ) with separators required drives interleave_last
\* and then one more primary.  Over digit primaries and a chr separator it
\* succeeds iff the (digit, separator) pairs the buffer starts with are
\* followed by a digit, i.e. iff the list does not stop after a separator;
\* it then returns all these digits in input order and has consumed exactly
\* them and the separators between them.  "1,2,3" gives [1,2,3] and "1,2,"
\* fails.
C18_InterleaveList ==
  /\ InterleaveOfDigits("interleave", TRUE) =>
       LET s == TopInput
           n == NumPairs(s, Top.p.g.c)
       IN  /\ Len(Top.log) >= 1
           /\ Top.log[1].k = "interleave_last"
           /\ ~Top.log[1].try
           /\ has_value(Top.log[1].r)
           /\ Top.log[1].adv = 2 * n
           /\ Len(Top.log) = 2
           /\ Top.log[2].k = "pred"
           /\ Top.log[2].at = 2 * n
           /\ is_good(Top) <=> (Len(s) > 2 * n /\ is_digit(s[2 * n + 1]))
           /\ is_good(Top) =>
                /\ Top.o_[1].val[1] = [j \in 1..(n + 1) |-> s[2 * j - 1]]
                /\ Top.consumed_ = 2 * n + 1
                /\ Top.in_ = SubSeq(s, 2 * n + 2, Len(s))
  /\ (main = "done" /\ Grammars[g] = interleave(digit, chr(","), TRUE)) =>
       /\ input = <<"1", ",", "2", ",", "3">> =>
            /\ has_value(result[1].r)
            /\ result[1].r.val[1] = <<"1", "2", "3">>
       /\ input = <<"1", ",", "2", ",">> => has_error(result[1].r)

\* "1,2,3" with ',' as separator has given [1,2,3].
C18_Witness ==
  /\ main = "done"
  /\ input = <<"1", ",", "2", ",", "3">>
  /\ stack[1].p.k = "interleave"
  /\ is_good(stack[1])
  /\ stack[1].o_[1].val[1] = <<"1", "2", "3">>
  /\ stack[1].consumed_ = 5


\* What many( seq_first( digit, try_{ chr( c ) } ) ) takes from the buffer s:
\* the digits, each with the separator after it when there is one.
RECURSIVE OptSepAfter(_, _)
OptSepAfter(s, c) ==
  IF Len(s) >= 1 /\ is_digit(s[1])
  THEN LET k == IF Len(s) >= 2 /\ s[2] = c THEN 2 ELSE 1
           r == OptSepAfter(SubSeq(s, k + 1, Len(s)), c)
       IN  [vals |-> <<s[1]>> \o r.vals, used |-> k + r.used]
  ELSE [vals |-> <<>>, used |-> 0]

\* C20: interleave_last( f, g, sep_required ) never fails and returns results
\* of f only, in order.  With sep_required it returns the primaries that were
\* each followed by a separator and its cursor is right after the last such
\* separator: a last primary without a separator is given back and is not
\* returned.  Without sep_required the separator after a primary is optional
\* and every primary parsed is returned.
C20_InterleaveLast ==
  /\ (Running /\ Top.susp /\ finished(Top) /\ Top.p.k = "interleave_last") =>
       /\ is_good(Top)
       /\ Len(Top.log) = 1
       /\ Top.log[1].k = "many"
       /\ Top.o_[1].val[1] = Top.log[1].r.val[1]
  /\ InterleaveOfDigits("interleave_last", TRUE) =>
       LET s == TopInput
           n == NumPairs(s, Top.p.g.c)
       IN  /\ Top.o_[1].val[1] = [j \in 1..n |-> s[2 * j - 1]]
           /\ Top.consumed_ = 2 * n
           /\ Top.in_ = SubSeq(s, 2 * n + 1, Len(s))
  /\ InterleaveOfDigits("interleave_last", FALSE) =>
       LET s == TopInput
           r == OptSepAfter(s, Top.p.g.c)
       IN  /\ Top.o_[1].val[1] = r.vals
           /\ Top.consumed_ = r.used
           /\ Top.in_ = SubSeq(s, r.used + 1, Len(s))

\* interleave_last( digit, chr( 'a' ) ) on "1a1": the second primary was
\* parsed, had no separator after it, and was given back.
C20_Witness ==
  /\ InterleaveOfDigits("interleave_last", TRUE)
  /\ TopInput = <<"1", "a", "1">>
  /\ Top.o_[1].val[1] = <<"1">>
  /\ Top.consumed_ = 2
  /\ Top.farthest_ = 3
  /\ Top.in_ = <<"1">>


\* What many( seq_last( chr( c ), digit ) ) takes from the buffer s: the
\* number of (c, digit) pairs it starts with.
RECURSIVE NumSepPairs(_, _)
NumSepPairs(s, c) ==
  IF Len(s) >= 2 /\ s[1] = c /\ is_digit(s[2])
  THEN 1 + NumSepPairs(SubSeq(s, 3, Len(s)), c)
  ELSE 0

\* What a list of digits, each with an optional separator c before it, takes
\* from the buffer s.
RECURSIVE OptSepBefore(_, _)
OptSepBefore(s, c) ==
  LET k == IF Len(s) >= 1 /\ s[1] = c THEN 1 ELSE 0
  IN  IF Len(s) > k /\ is_digit(s[k + 1])
      THEN LET r == OptSepBefore(SubSeq(s, k + 2, Len(s)), c)
           IN  [vals |-> <<s[k + 1]>> \o r.vals, used |-> k + 1 + r.used]
      ELSE [vals |-> <<>>, used |-> 0]

\* The coroutine on top of the stack is a finished interleave_first over
\* emplace<T>( digit ) primaries and a chr separator.
InterleaveFirstOfT(sep_required) ==
  /\ Running
  /\ Top.susp
  /\ finished(Top)
  /\ Top.p.k = "interleave_first"
  /\ Top.p.sep_required = sep_required
  /\ Top.p.f = emplace("T", <<digit>>)
  /\ Top.p.g.k = "chr"

\* C19: interleave_first( f, g, sep_required ) returns the results of the
\* primary parser f only, in input order, in both modes: with sep_required
\* the primaries of the leading (separator, primary) pairs, without it the
\* primaries each with an optional separator before it.
C19_InterleaveFirstReturnsPrimaries ==
  /\ InterleaveFirstOfT(TRUE) =>
       LET s == TopInput
           n == NumSepPairs(s, Top.p.g.c)
       IN  /\ is_good(Top)
           /\ Top.o_[1].val[1] = [j \in 1..n |-> apply("T", <<s[2 * j]>>)]
           /\ Top.consumed_ = 2 * n
  /\ InterleaveFirstOfT(FALSE) =>
       LET s == TopInput
           r == OptSepBefore(s, Top.p.g.c)
       IN  /\ is_good(Top)
           /\ Top.consumed_ = r.used
           /\ Top.o_[1].val[1] =
                [j \in 1..Len(r.vals) |-> apply("T", <<r.vals[j]>>)]

\* With sep_required the claim holds of the code: the elements are the
\* primaries of the leading (separator, primary) pairs.
C19_SepRequiredReturnsPrimaries ==
  InterleaveFirstOfT(TRUE) =>
    LET s == TopInput
        n == NumSepPairs(s, Top.p.g.c)
    IN  /\ is_good(Top)
        /\ Top.o_[1].val[1] = [j \in 1..n |-> apply("T", <<s[2 * j]>>)]
        /\ Top.consumed_ = 2 * n

\* Without sep_required the code consumes what the claim says, but each
\* element it returns is the optional result of try_{ g() }, not f's result.
C19_SepOptionalReturnsSeparators ==
  InterleaveFirstOfT(FALSE) =>
    LET s == TopInput
        r == OptSepBefore(s, Top.p.g.c)
    IN  /\ is_good(Top)
        /\ Top.consumed_ = r.used
        /\ Len(Top.o_[1].val[1]) = Len(r.vals)
        /\ \A j \in 1..Len(r.vals) :
             /\ Top.o_[1].val[1][j] # apply("T", <<r.vals[j]>>)
             /\ has_value(Top.o_[1].val[1][j]) =>
                  Top.o_[1].val[1][j] = result_value(Top.p.g.c)

\* interleave_first( f, chr( 'a' ), false ) on "a1": one element came back.
C19_Witness ==
  /\ InterleaveFirstOfT(FALSE)
  /\ TopInput = <<"a", "1">>
  /\ Top.consumed_ = 2
  /\ Len(Top.o_[1].val[1]) = 1


\* What a finished Bracketed coroutine f has done: L[1] is the left
\* delimiter, L[2] the body, L[3] the right delimiter.
BracketedDone(f) ==
  LET L == f.log
      n == Len(L)
      kinds == IF f.p.k = "bracketed_char"
               THEN <<"chr", f.p.ps[1].k, "chr">>
               ELSE [j \in 1..3 |-> f.p.ps[j].k]
  IN  /\ n >= 1 /\ n <= 3
      /\ \A j \in 1..n :
           /\ L[j].k = kinds[j]
           /\ ~L[j].try
           /\ L[j].at = SumAdv(L, j - 1)
           /\ L[j].adv = (IF has_value(L[j].r) THEN L[j].cons ELSE 0)
           /\ j < n => has_value(L[j].r)
      /\ f.p.k = "bracketed" =>
           /\ \A j \in 1..n : L[j].arg = j
           /\ Held(f) = (n + 1)..3
           /\ \A j \in Held(f) : Fresh(f.args[j][1])
      /\ f.p.k = "bracketed_char" =>
           Held(f) = (IF n >= 2 THEN {} ELSE {1})
      /\ is_good(f) <=> (n = 3 /\ has_value(L[3].r))
      /\ is_error(f) =>
           /\ ~has_value(L[n].r)
           /\ f.o_[1].err = L[n].r.err
      /\ is_good(f) =>
           /\ f.o_[1].val[1] = L[2].r.val[1]
           /\ f.consumed_ = SumAdv(L, 3)

\* C21: bracketed( l, p, r ) drives the left delimiter, the body and the
\* right delimiter in this order, each from where the one before stopped; it
\* succeeds iff all three succeed, its value is the body's value, and it
\* fails with the error of the first component that fails, the components
\* after that one never being driven.
C21_BracketedReturnsBody ==
  (Running /\ Top.p.k \in {"bracketed", "bracketed_char"} /\ finished(Top))
    => BracketedDone(Top)

\* bracketed( blanks, digit, chr( 'a' ) ) on " 1a" has returned the digit.
C21_Witness ==
  /\ Running
  /\ Top.p.k = "bracketed"
  /\ is_good(Top)
  /\ input = <<" ", "1", "a">>
  /\ Top.o_[1].val[1] = "1"
  /\ Top.consumed_ = 3


\* What a finished Exhaust coroutine f has done: L[1] is its parser, L[2]
\* the eof it awaits after it.
ExhaustDone(f) ==
  LET L == f.log
      n == Len(L)
  IN  /\ n >= 1 /\ n <= 2
      /\ L[1].k = f.p.ps[1].k
      /\ ~L[1].try
      /\ L[1].at = 0
      /\ n = 2 <=> has_value(L[1].r)
      /\ n = 2 =>
           /\ L[2].k = "eof"
           /\ ~L[2].try
           /\ L[2].at = L[1].cons
           /\ L[2].adv = 0
      /\ is_good(f) <=>
           (has_value(L[1].r) /\ L[1].cons = Len(TopInput))
      /\ is_good(f) =>
           /\ f.o_[1].val[1] = L[1].r.val[1]
           /\ f.consumed_ = Len(TopInput)
           /\ Len(f.in_) = 0
      /\ is_error(f) =>
           /\ f.o_[1].err =
                (IF has_value(L[1].r)
                 THEN "failed to parse all characters in input stream"
                 ELSE L[1].r.err)
           /\ f.consumed_ = (IF n = 2 THEN L[1].cons ELSE 0)

\* C22: exhaust( p ) succeeds, with p's value, iff p succeeds and no input
\* is left after it; it fails with p's error when p fails and with eof's
\* error when input is left.  exhaust( str( "abc" ) ) succeeds on "abc"
\* having consumed 3 characters, fails on "abcd" with eof's error, and fails
\* on "ab" with the end-of-input error of the character primitive.
C22_ExhaustRequiresEnd ==
  /\ (Running /\ Top.p.k = "exhaust" /\ finished(Top)) => ExhaustDone(Top)
  /\ (main = "done" /\ Grammars[g] = exhaust(str(<<"a", "b", "c">>))) =>
       /\ has_value(result[1].r) <=> input = <<"a", "b", "c">>
       /\ has_value(result[1].r) => stack[1].consumed_ = 3
       /\ input = <<"a", "b", "c", "d">> =>
            result[1].r.err = "failed to parse all characters in input stream"
       /\ input = <<"a", "b">> => result[1].r.err = "EOF"
       /\ input = <<"a", "b", "d">> => result[1].r.err = "expected 'c'"

\* exhaust( str( "abc" ) ) has failed on "abcd" after str had succeeded.
C22_Witness ==
  /\ main = "done"
  /\ Grammars[g] = exhaust(str(<<"a", "b", "c">>))
  /\ input = <<"a", "b", "c", "d">>
  /\ has_error(result[1].r)
  /\ Len(stack[1].log) = 2
  /\ has_value(stack[1].log[1].r)
  /\ stack[1].farthest_ = 4


\* What a finished Diagnose coroutine f has done: L[1] is the main parser,
\* L[2] the probe try_{ eof() }, L[3] the expected parser.
DiagnoseDone(f) ==
  LET L == f.log
      n == Len(L)
      rest == Len(TopInput) - L[1].cons
  IN  /\ n \in 1..3
      /\ L[1].arg = 1
      /\ L[1].k = f.p.ps[1].k
      /\ ~L[1].try
      /\ L[1].at = 0
      /\ ~has_value(L[1].r) =>
           /\ n = 1
           /\ is_error(f)
           /\ f.o_[1].err = L[1].r.err
           /\ Held(f) = {2}
           /\ Fresh(f.args[2][1])
      /\ has_value(L[1].r) =>
           /\ n >= 2
           /\ L[2].k = "eof"
           /\ L[2].try
           /\ L[2].at = L[1].cons
           /\ L[2].adv = 0
           /\ has_value(L[2].r) <=> rest = 0
      /\ (has_value(L[1].r) /\ rest = 0) =>
           /\ n = 2
           /\ is_good(f)
           /\ f.o_[1].val[1] = L[1].r.val[1]
           /\ f.consumed_ = L[1].cons
           /\ Held(f) = {2}
           /\ Fresh(f.args[2][1])
      /\ (has_value(L[1].r) /\ rest > 0) =>
           /\ n = 3
           /\ L[3].arg = 2
           /\ L[3].k = f.p.ps[2].k
           /\ ~L[3].try
           /\ L[3].at = L[1].cons
           /\ Held(f) = {}
           /\ is_error(f)
           /\ f.o_[1].err =
                (IF has_value(L[3].r)
                 THEN "parsing partially succeeded but was not able to " \o
                      "consume all input."
                 ELSE L[3].r.err)

\* C23: diagnose( main, expected ): when main fails diagnose fails with
\* main's error and expected is never driven; when main succeeds and no
\* input is left diagnose succeeds with main's value and expected is never
\* driven; when main succeeds and input is left, expected is driven once,
\* at the cursor after main, and diagnose fails whether expected succeeded
\* (with the generic message) or failed (with expected's error).
C23_DiagnoseFailsOnLeftover ==
  (Running /\ Top.p.k = "diagnose" /\ finished(Top)) => DiagnoseDone(Top)

\* diagnose( many( digit ), chr( 'a' ) ) on "1a": the expected parser
\* succeeded and diagnose failed with the generic message.
C23_Witness ==
  /\ Running
  /\ Top.p.k = "diagnose"
  /\ is_error(Top)
  /\ input = <<"1", "a">>
  /\ Len(Top.log) = 3
  /\ has_value(Top.log[3].r)
  /\ Top.log[3].at = 1


\* What a finished OnError coroutine f has done.
OnErrorDone(f) ==
  LET L == f.log
  IN  /\ Len(L) = 1
      /\ L[1].k = f.p.ps[1].k
      /\ L[1].try
      /\ L[1].at = 0
      /\ is_good(f) <=> has_value(L[1].r)
      /\ is_good(f) =>
           /\ f.o_[1].val[1] = L[1].r.val[1]
           /\ f.consumed_ = L[1].cons
           /\ L[1].adv = L[1].cons
      /\ is_error(f) =>
           /\ f.o_[1].err = f.p.msg
           /\ f.consumed_ = 0
           /\ f.farthest_ = L[1].far

\* C24: on_error( p, message ): when p succeeds the value and the advance
\* are p's; when p fails, on_error fails with the text message instead of
\* p's text, and the farthest position p's attempt reached stays recorded:
\* in the on_error coroutine, and in the position run_parser reports.
C24_OnErrorReplacesText ==
  /\ (Running /\ Top.p.k = "on_error" /\ finished(Top)) => OnErrorDone(Top)
  /\ (main = "done" /\ stack[1].p.k = "on_error" /\ is_error(stack[1])) =>
       /\ result[1].r.err = stack[1].p.msg
       /\ result[1].idx[1] = stack[1].log[1].far - 1

\* on_error( seq( digit, chr( 'a' ) ), message ) on "1 ": the text is the
\* message, the position is that of the blank.
C24_Witness ==
  /\ main = "done"
  /\ stack[1].p.k = "on_error"
  /\ input = <<"1", " ">>
  /\ result[1].r.err = "expected a pair"
  /\ stack[1].log[1].r.err = "expected 'a'"
  /\ result[1].idx = <<1>>
  /\ stack[1].consumed_ = 0


\* C25: eof succeeds iff no character is left at the cursor it is driven
\* at.  In neither outcome does the cursor of the awaiting coroutine move:
\* a successful eof has consumed nothing, and the character a failing eof
\* probed (and consumed, in its own coroutine) is not charged to the awaiter,
\* whether eof was awaited plainly or through try_.
C25_EofIffNothingLeft ==
  [][ (Completes /\ Awaited.p.k = "eof") =>
        /\ is_good(Awaited) <=> Len(Awaiter.in_) = 0
        /\ DrivenAtCursor(Awaiter, Awaited)
        /\ Len(Awaited.log) = 1
        /\ Awaited.log[1].k = "any_chr"
        /\ Awaited.log[1].try
        /\ Awaited.log[1].at = 0
        /\ is_good(Awaited) =>
             /\ Awaited.o_[1].val[1] = monostate
             /\ Awaited.consumed_ = 0
             /\ Awaited.in_ = Awaiter.in_
        /\ is_error(Awaited) =>
             /\ Awaited.consumed_ = 1
             /\ Awaited.o_[1].err =
                  "failed to parse all characters in input stream"
        /\ AwaiterNext.in_ = Awaiter.in_
        /\ AwaiterNext.consumed_ = Awaiter.consumed_ ]_vars

\* An eof awaited after one character had been consumed found another one
\* and failed; its awaiter has failed with the cursor it had.
C25_Witness ==
  /\ step = "await_suspend"
  /\ abort = "none"
  /\ Len(Top.log) > 0
  /\ LastLog(Top).k = "eof"
  /\ ~has_value(LastLog(Top).r)
  /\ LastLog(Top).cons = 1
  /\ LastLog(Top).adv = 0
  /\ LastLog(Top).at = 1
  /\ Top.consumed_ = 1
  /\ Len(Top.in_) > 0


\* The buffer s starts with the literal sv, character for character.
StartsWith(s, sv) ==
  /\ Len(s) >= Len(sv)
  /\ \A j \in 1..Len(sv) : s[j] = sv[j]

\* C26: str( lit ) succeeds iff the input at the cursor starts with lit,
\* character for character; it then has consumed exactly |lit| characters
\* and the awaiting coroutine's cursor is the old one plus |lit|.  When it
\* fails the awaiting coroutine's cursor has not moved, although str itself
\* had consumed the prefix of lit that matched.
C26_StrConsumesLiteral ==
  /\ [][ (Completes /\ Awaited.p.k = "str") =>
           LET sv == Awaited.p.sv
           IN  /\ DrivenAtCursor(Awaiter, Awaited)
               /\ is_good(Awaited) <=> StartsWith(Awaiter.in_, sv)
               /\ is_good(Awaited) =>
                    /\ Awaited.consumed_ = Len(sv)
                    /\ Awaited.o_[1].val[1] = monostate
                    /\ AwaiterNext.consumed_ = Awaiter.consumed_ + Len(sv)
                    /\ AwaiterNext.in_ =
                         SubSeq(Awaiter.in_, Len(sv) + 1, Len(Awaiter.in_))
               /\ is_error(Awaited) =>
                    /\ Awaited.consumed_ < Len(sv)
                    /\ StartsWith(Awaiter.in_,
                                  SubSeq(sv, 1, Awaited.consumed_))
                    /\ AwaiterNext.consumed_ = Awaiter.consumed_
                    /\ AwaiterNext.in_ = Awaiter.in_ ]_vars
  /\ [](( main = "done" /\ stack[1].p.k = "str") =>
           /\ has_value(result[1].r) <=> StartsWith(input, stack[1].p.sv)
           /\ has_value(result[1].r) =>
                /\ stack[1].consumed_ = Len(stack[1].p.sv)
                /\ stack[1].in_ =
                     SubSeq(input, Len(stack[1].p.sv) + 1, Len(input)))

\* A str failed after the first character of its literal had matched, and
\* its awaiter, which tried it, is where it was.
C26_Witness ==
  /\ step = "try_await_resume"
  /\ abort = "none"
  /\ LastLog(Top).k = "str"
  /\ ~has_value(LastLog(Top).r)
  /\ LastLog(Top).cons = 1
  /\ LastLog(Top).adv = 0
  /\ LastLog(Top).far = 2
  /\ Top.consumed_ = LastLog(Top).at


\* The single-character parsers, and what each accepts.
CharKinds == {"pred", "chr", "any_chr"}

AcceptedBy(p, c) ==
  CASE p.k = "pred"    -> Accepts(p.f, c)
    [] p.k = "chr"     -> c = p.c
    [] p.k = "any_chr" -> TRUE

\* C27: pred( f ), and chr, any_chr and the character classes built on the
\* same step, succeed iff the input at the cursor is not empty and its first
\* character is accepted; they return that character and the awaiting
\* coroutine's cursor advances by exactly one.  Otherwise they fail and the
\* awaiting coroutine's cursor does not advance.  any_chr fails only at the
\* end of the input.
C27_PredConsumesOneAccepted ==
  /\ [][ (Completes /\ Awaited.p.k \in CharKinds) =>
           LET s == Awaiter.in_
           IN  /\ DrivenAtCursor(Awaiter, Awaited)
               /\ is_good(Awaited) <=>
                    (Len(s) > 0 /\ AcceptedBy(Awaited.p, s[1]))
               /\ is_good(Awaited) =>
                    /\ Awaited.o_[1].val[1] = s[1]
                    /\ Awaited.consumed_ = 1
                    /\ AwaiterNext.consumed_ = Awaiter.consumed_ + 1
                    /\ AwaiterNext.in_ = Tail(s)
               /\ is_error(Awaited) =>
                    /\ AwaiterNext.consumed_ = Awaiter.consumed_
                    /\ AwaiterNext.in_ = s
                    /\ Len(s) = 0 => Awaited.o_[1].err = "EOF"
                    /\ Awaited.p.k = "any_chr" => Len(s) = 0 ]_vars
  /\ [](( main = "done" /\ stack[1].p.k \in CharKinds) =>
           /\ has_value(result[1].r) <=>
                (Len(input) > 0 /\ AcceptedBy(stack[1].p, input[1]))
           /\ has_value(result[1].r) =>
                /\ result[1].r.val[1] = input[1]
                /\ stack[1].consumed_ = 1)

\* not_of( "1'" ) was tried on a '1' after lower and upper had refused it:
\* it read the character, refused it, and the awaiter's cursor is unmoved.
C27_Witness ==
  /\ step = "try_await_resume"
  /\ abort = "none"
  /\ Top.p.k = "one"
  /\ LastLog(Top).k = "pred"
  /\ ~has_value(LastLog(Top).r)
  /\ LastLog(Top).cons = 1
  /\ LastLog(Top).adv = 0
  /\ Top.consumed_ = 0
  /\ Len(Top.in_) > 0
  /\ Top.in_[1] = "1"
  /\ Len(stack) >= 3
  /\ stack[Len(stack) - 2].consumed_ = 1


\* The quote character of a quoted-string primitive.
QuoteOf(k) == IF k = "single_quoted_str" THEN "'" ELSE "\""

QuotedKinds == {"single_quoted_str", "double_quoted_str"}

\* The offset in s, from pos on, of the first quote q that is not escaped
\* by a backslash; 0 when there is none.
RECURSIVE UnescapedClose(_, _, _)
UnescapedClose(s, pos, q) ==
  IF pos > Len(s) THEN 0
  ELSE IF s[pos] = "\\" THEN UnescapedClose(s, pos + 2, q)
  ELSE IF s[pos] = q THEN pos
  ELSE UnescapedClose(s, pos + 1, q)

\* The offset in s, from pos on, of the first quote q; 0 when there is none.
RECURSIVE FirstClose(_, _, _)
FirstClose(s, pos, q) ==
  IF pos > Len(s) THEN 0
  ELSE IF s[pos] = q THEN pos
  ELSE FirstClose(s, pos + 1, q)

\* The finished quoted-string coroutine f, driven with the buffer s, has
\* done what a scan to the closing quote at offset close (0: none) does.
QuotedDone(f, s, close) ==
  LET q == QuoteOf(f.p.k)
  IN  /\ is_good(f) <=> (Len(s) > 0 /\ s[1] = q /\ close > 0)
      /\ is_good(f) =>
           /\ f.o_[1].val[1] = SubSeq(s, 2, close - 1)
           /\ f.consumed_ = Len(f.o_[1].val[1]) + 2
           /\ f.in_ = SubSeq(s, close + 1, Len(s))
      /\ is_error(f) => f.consumed_ = 0

\* C28: single_quoted_str and double_quoted_str succeed iff the input starts
\* with the quote character and an unescaped closing quote follows; they
\* scan to that closing quote (a quote escaped by a backslash does not end
\* the string), return the characters between the quotes, consume their
\* number plus 2, and fail when the input ends before a closing quote.
C28_QuotedScansToUnescapedQuote ==
  (Running /\ Top.p.k \in QuotedKinds /\ finished(Top)) =>
    QuotedDone(Top, TopInput, UnescapedClose(TopInput, 2, QuoteOf(Top.p.k)))

\* C28, amended: single_quoted_str and double_quoted_str succeed iff the
\* input starts with the quote character and another quote character
\* follows; the string ends at the first quote character after the opening
\* one, whether or not a backslash stands before it; they return the
\* characters between the two, consume their number plus 2, and fail when
\* the input ends before a second quote character.
C28_QuotedScansToFirstQuote ==
  (Running /\ Top.p.k \in QuotedKinds /\ finished(Top)) =>
    QuotedDone(Top, TopInput, FirstClose(TopInput, 2, QuoteOf(Top.p.k)))

\* single_quoted_str on '\'' has stopped at the escaped quote: it returned
\* the backslash alone and consumed 3 of the 4 characters.
C28_Witness ==
  /\ Running
  /\ Top.p.k = "single_quoted_str"
  /\ TopInput = <<"'", "\\", "'", "'">>
  /\ is_good(Top)
  /\ Top.o_[1].val[1] = <<"\\">>
  /\ Top.consumed_ = 3
  /\ Top.in_ = <<"'">>


\* C29: the string returned by double_quoted_str, single_quoted_str and
\* quoted_str never contains a newline character.
C29_QuotedHasNoNewline ==
  (/\ Running
   /\ Top.p.k \in QuotedKinds \cup {"quoted_str"}
   /\ is_good(Top)) =>
    \A j \in 1..Len(Top.o_[1].val[1]) : Top.o_[1].val[1][j] # "\n"

\* What the scanners guarantee of the string they return: it does not
\* contain the quote character it was delimited by.
C29_QuotedHasNoQuote ==
  (Running /\ Top.p.k \in QuotedKinds /\ is_good(Top)) =>
    \A j \in 1..Len(Top.o_[1].val[1]) :
      Top.o_[1].val[1][j] # QuoteOf(Top.p.k)

\* quoted_str on a quote, a newline and a quote has returned the newline.
C29_Witness ==
  /\ main = "done"
  /\ stack[1].p.k = "quoted_str"
  /\ input = <<"'", "\n", "'">>
  /\ has_value(result[1].r)
  /\ result[1].r.val[1] = <<"\n">>
  /\ stack[1].consumed_ = 3


\* Letters, as the claim means them.
IsLetter(c) == c \in LowerChars \cup UpperChars

\* C30: identifier succeeds iff the first character at the cursor is a
\* letter or an underscore; it then consumes the longest run of letters,
\* digits and underscores, returns exactly that run and advances the cursor
\* by its length; on an empty input or a leading digit it fails and has
\* consumed nothing.
C30_IdentifierMaximalRun ==
  (Running /\ Top.p.k = "identifier" /\ finished(Top)) =>
    LET s == TopInput
        n == Top.consumed_
    IN  /\ is_good(Top) <=> (Len(s) > 0 /\ (IsLetter(s[1]) \/ s[1] = "_"))
        /\ is_good(Top) =>
             /\ n >= 1 /\ n <= Len(s)
             /\ \A j \in 1..n :
                  IsLetter(s[j]) \/ s[j] \in DigitChars \/ s[j] = "_"
             /\ n < Len(s) =>
                  ~(\/ IsLetter(s[n + 1])
                    \/ s[n + 1] \in DigitChars
                    \/ s[n + 1] = "_")
             /\ Top.o_[1].val[1] = SubSeq(s, 1, n)
             /\ Top.in_ = SubSeq(s, n + 1, Len(s))
        /\ is_error(Top) =>
             /\ n = 0
             /\ Top.in_ = s
             /\ Top.farthest_ = 0
        /\ (Len(s) = 0 \/ (Len(s) > 0 /\ s[1] \in DigitChars)) => is_error(Top)

\* identifier on "_1B " has returned "_1B" and stopped before the blank.
C30_Witness ==
  /\ Running
  /\ Top.p.k = "identifier"
  /\ TopInput = <<"_", "1", "B", " ">>
  /\ is_good(Top)
  /\ Top.o_[1].val[1] = <<"_", "1", "B">>
  /\ Top.consumed_ = 3
  /\ Top.in_ = <<" ">>


\* C31: run_parser resumes the parser once, with the whole input, and
\* returns the parser's value when it succeeded, whether or not input is
\* left; a parser of the form exhaust( parse<Lang, T>() ), which is what
\* parse_from_string runs, succeeds only when the T it parsed accounts for
\* the whole input.
C31_RunParserAcceptsPrefix ==
  /\ [][ RunParserResume =>
           /\ Fresh(stack[1])
           /\ stack'[1].in_ = input
           /\ stack'[1].consumed_ = 0
           /\ ~stack'[1].susp ]_vars
  /\ [][ (stack # <<>> /\ stack' # <<>> /\ ~Fresh(stack[1]))
           => (~Fresh(stack'[1]) /\ ~RunParserResume) ]_vars
  /\ [](main = "done" =>
          /\ Len(stack) = 1
          /\ stack[1].writes = 1
          /\ has_value(result[1].r) <=> is_good(stack[1])
          /\ has_value(result[1].r) =>
               /\ result[1].r = stack[1].o_[1]
               /\ stack[1].in_ =
                    SubSeq(input, stack[1].consumed_ + 1, Len(input))
          /\ stack[1].p.k = "exhaust" =>
               /\ has_value(result[1].r) <=>
                    /\ has_value(stack[1].log[1].r)
                    /\ stack[1].log[1].cons = Len(input)
               /\ has_value(result[1].r) =>
                    /\ result[1].r.val[1] = stack[1].log[1].r.val[1]
                    /\ stack[1].consumed_ = Len(input))

\* run_parser has returned the value of a sequence that left one character
\* of the input unconsumed.
C31_Witness ==
  /\ main = "done"
  /\ stack[1].p.k = "seq"
  /\ Len(input) = 3
  /\ has_value(result[1].r)
  /\ result[1].r.val[1] = <<"a", "1">>
  /\ stack[1].consumed_ = 2
  /\ Len(stack[1].in_) = 1


\* What a ManyExhaust coroutine f has done so far: L[1] is the try_ attempt
\* of exhaust( many( p ) ), L[2] the extra run of the element parser.  The
\* extra run starts where the attempt started, the attempt being refunded.
ManyExhaustDone(f) ==
  LET L == f.log
      n == Len(L)
  IN  /\ n <= 2
      /\ n >= 1 =>
           /\ L[1].k = "exhaust"
           /\ L[1].try
           /\ L[1].at = 0
      /\ is_good(f) =>
           /\ n = 1
           /\ has_value(L[1].r)
           /\ f.o_[1].val[1] = L[1].r.val[1]
           /\ Len(f.in_) = 0
      /\ n = 2 =>
           /\ ~has_value(L[1].r)
           /\ L[2].k = f.p.f.k
           /\ ~L[2].try
           /\ L[2].at = 0
           /\ is_error(f) <=> ~has_value(L[2].r)
           /\ is_error(f) => f.o_[1].err = L[2].r.err
      /\ is_error(f) => n = 2

\* What holds of many_exhaust: it returns the list of many when the attempt
\* succeeds, and the extra run of the element parser is driven at the cursor
\* the attempt started at; when that run fails its failure is the result.
C32_ManyExhaustRefundedRerun ==
  \A i \in 1..Len(stack) :
    stack[i].p.k = "many_exhaust" => ManyExhaustDone(stack[i])

\* C32: many_exhaust( p ) returns the results of many when
\* exhaust( many( p ) ) succeeds; when it fails, the element parser is run
\* once more and many_exhaust fails with the failure of that run.
C32_ManyExhaustFailsAsElement ==
  \A i \in 1..Len(stack) :
    LET f == stack[i]
    IN  f.p.k = "many_exhaust" =>
          /\ is_good(f) =>
               (Len(f.log) = 1 /\ f.o_[1].val[1] = f.log[1].r.val[1])
          /\ Len(f.log) = 2 =>
               /\ is_error(f)
               /\ f.o_[1].err = f.log[2].r.err

\* many_exhaust( digit ) on "1a": the extra run of digit has succeeded on
\* the "1" the refunded attempt had read, so many_exhaust has no failure.
C32_Witness ==
  /\ Grammars[g] = many_exhaust(digit)
  /\ input = <<"1", "a">>
  /\ Len(stack) = 1
  /\ Len(stack[1].log) = 2
  /\ has_value(stack[1].log[2].r)
  /\ stack[1].log[2].r.val[1] = "1"
  /\ ~finished(stack[1])

\* C33: whenever the attempt of exhaust( many( p ) ) has failed, the extra
\* run of the element parser fails, and the assert( false ) after it is
\* never reached.
C33_ExtraRunAlwaysFails ==
  /\ abort # "many_exhaust: assert( false )"
  /\ \A i \in 1..Len(stack) :
       (stack[i].p.k = "many_exhaust" /\ Len(stack[i].log) = 2) =>
         ~has_value(stack[i].log[2].r)

\* The assert( false ) of many_exhaust has failed: the pair parser had
\* matched "1a" once before the input ended with a lone "1".
C33_Witness ==
  /\ abort = "many_exhaust: assert( false )"
  /\ step = "assert_false"
  /\ Top.p.k = "many_exhaust"
  /\ Top.p.f.k = "seq"
  /\ Top.log[2].cons = 2
  /\ Len(Top.in_) = 1


\* What holds of the index run_parser converts: it is below the length of
\* the input and not below -1, and it is -1 exactly when the failed parser
\* has a farthest_ of 0, no character having been read by anything it ran;
\* no coroutine's cursor or farthest_ passes the end of the input.
C34_ErrorIndexBelowLength ==
  /\ \A i \in 1..Len(stack) :
       /\ stack[i].consumed_ >= 0
       /\ stack[i].farthest_ >= 0
       /\ Base(stack, i) + stack[i].consumed_ <= Len(input)
       /\ Base(stack, i) + stack[i].farthest_ <= Len(input)
  /\ (main = "done" /\ Len(result[1].idx) = 1) =>
       /\ result[1].idx[1] >= -1
       /\ result[1].idx[1] < Len(input)
       /\ result[1].idx[1] = -1 <=> stack[1].farthest_ = 0

\* C34: whenever run_parser returns an error, the buffer index it converts
\* to a line and column, farthest - 1, lies inside the input:
\* 0 <= index < |input|, the empty input and parsers that fail before any
\* character is read included.
C34_ErrorIndexInsideInput ==
  (main = "done" /\ Len(result[1].idx) = 1) =>
    /\ 0 <= result[1].idx[1]
    /\ result[1].idx[1] < Len(input)

\* run_parser has returned an error for a non-empty input and the index it
\* converted is -1: the parser failed without reading a character.
C34_Witness ==
  /\ main = "done"
  /\ Len(input) > 0
  /\ ~has_value(result[1].r)
  /\ result[1].idx = <<-1>>
  /\ stack[1].farthest_ = 0
  /\ stack[1].consumed_ = 0


\* The attempts of its element parser a Many coroutine has made: the
\* co_awaits it has completed and the one in progress.
ManyAttempts(i) ==
  Len(stack[i].log) +
    (IF Len(stack[i].sub) = 1 \/ i < Len(stack) THEN 1 ELSE 0)

\* Every successful attempt of the element parser so far consumed a character.
Consuming(f) ==
  \A j \in 1..Len(f.log) : has_value(f.log[j].r) => f.log[j].adv >= 1

\* A Many coroutine has had an attempt succeed without consuming.
ZeroLoop ==
  \E i \in 1..Len(stack) : stack[i].p.k = "many" /\ ~Consuming(stack[i])

ManyStarted ==
  /\ Running
  /\ Top.p.k = "many"
  /\ ~Top.susp
  /\ Len(Top.log) = 0
  /\ Len(Top.sub) = 0

ManyEnded == Len(stack) >= 1 /\ Top.p.k = "many" /\ finished(Top)

\* C35: a many( p ) whose element parser consumes at least one character
\* whenever it succeeds makes at most (length of the buffer it was driven
\* with + 1) attempts of p, each successful attempt but the first starts
\* beyond the one before, and once driven it finishes.
C35_ManyTerminates ==
  /\ [](\A i \in 1..Len(stack) :
          (stack[i].p.k = "many" /\ Consuming(stack[i])) =>
            /\ ManyAttempts(i) <=
                 stack[i].consumed_ + Len(stack[i].in_) + 1
            /\ \A j \in 2..Len(stack[i].log) :
                 stack[i].log[j].at > stack[i].log[j - 1].at)
  /\ ManyStarted ~> (ManyEnded \/ ZeroLoop)

\* many( digit ) under interleave's family has finished on three digits
\* after four attempts, the last one failing at the end of the input.
C35_Witness ==
  /\ ManyEnded
  /\ Consuming(Top)
  /\ Len(Top.log) = 4
  /\ Top.consumed_ = 3
  /\ Len(Top.in_) = 0
  /\ ~has_value(LastLog(Top).r)
  /\ Len(stack) >= 2


\* A Many coroutine f one of whose attempts succeeded without consuming
\* goes round for ever: every later attempt is made at the same cursor,
\* succeeds with the same value and consumes nothing.
Repeats(f) ==
  \A j \in 1..Len(f.log) :
    (has_value(f.log[j].r) /\ f.log[j].adv = 0) =>
      \A m \in j..Len(f.log) :
        /\ has_value(f.log[m].r)
        /\ f.log[m].r = f.log[j].r
        /\ f.log[m].adv = 0
        /\ f.log[m].at = f.log[j].at

\* The loop has gone round as often as it is followed.
ManyStillLooping ==
  \E i \in 1..Len(stack) :
    /\ stack[i].p.k = "many"
    /\ ~Consuming(stack[i])
    /\ ~finished(stack[i])
    /\ Len(stack[i].log) = MaxAttempts
    /\ Len(stack[i].loc) = MaxAttempts - 1

\* C36: when the element parser can succeed without consuming, as blanks,
\* which never fails, does, many( p ) never finishes: nothing guards the
\* loop, every iteration succeeds at the same cursor and the loop goes round
\* again, as often as it is followed.
C36_ManyOfEmptySuccessDiverges ==
  /\ [](\A i \in 1..Len(stack) :
          /\ (stack[i].p.k = "many" /\ ~Consuming(stack[i])) =>
               /\ ~finished(stack[i])
               /\ Repeats(stack[i])
          /\ (stack[i].p.k = "many" /\ stack[i].p.f = blanks) =>
               /\ ~finished(stack[i])
               /\ \A j \in 1..Len(stack[i].log) :
                    /\ has_value(stack[i].log[j].r)
                    /\ j >= 2 => stack[i].log[j].adv = 0)
  /\ [](main = "done" => Grammars[g] \notin {many(blanks), exhaust(many1(blanks))})
  /\ (Running /\ Top.p.k = "many" /\ Top.p.f = blanks) ~> ManyStillLooping

\* many( blanks ) on "  a": the first attempt took the two blanks, the
\* seven after it succeeded on nothing at the same cursor.
C36_Witness ==
  /\ ManyStillLooping
  /\ Grammars[g] = many(blanks)
  /\ input = <<" ", " ", "a">>
  /\ stack[1].log[1].adv = 2
  /\ stack[1].log[MaxAttempts].at = 2
  /\ stack[1].log[MaxAttempts].adv = 0
  /\ stack[1].consumed_ = 2
  /\ stack[1].in_ = <<"a">>


\* The decimal number a run of at most 10 digits that fits an int writes.
RECURSIVE NumberOf(_)
NumberOf(ds) ==
  IF Len(ds) = 0 THEN 0
  ELSE 10 * NumberOf(SubSeq(ds, 1, Len(ds) - 1)) + DigitValue(ds[Len(ds)])

\* What a finished parse_int coroutine f, driven with the buffer s, has
\* done: s is an optional '-' and then n digits.
ParseIntDone(f, s) ==
  LET neg  == Len(s) > 0 /\ s[1] = "-"
      rest == IF neg THEN Tail(s) ELSE s
      n    == LeadingDigits(rest)
      ds   == SubSeq(rest, 1, n)
      fits == AtMost(ds, 1, n, INT_MAX_DIGITS)
  IN  /\ is_good(f) <=> (n >= 1 /\ fits)
      /\ is_good(f) =>
           /\ f.o_[1].val[1].int >= -INT_MAX
           /\ f.o_[1].val[1].int <= INT_MAX
           /\ f.o_[1].val[1].int =
                (IF neg THEN -NumberOf(ds) ELSE NumberOf(ds))
           /\ f.consumed_ = n + (IF neg THEN 1 ELSE 0)
      /\ (is_error(f) /\ n >= 1) => f.o_[1].err = "error parsing int"
      /\ (neg /\ n = 0) => is_error(f)

\* C39: parse_int accepts an optional '-' and one or more decimal digits and
\* returns the sign times the number the digits write; when that number does
\* not fit an int it fails with "error parsing int" and returns no wrapped
\* value, so what it returns is in -(2^31 - 1) .. 2^31 - 1; a '-' with no
\* digit after it makes it fail.
C39_ParseIntNeverWraps ==
  /\ (Running /\ Top.p.k = "parse_int" /\ finished(Top)) =>
       ParseIntDone(Top, TopInput)
  /\ (main = "done" /\ Grammars[g] = parse_int) =>
       /\ input = INT_MAX_DIGITS => result[1].r = result_value(int_(INT_MAX))
       /\ input = <<"-">> \o INT_MAX_DIGITS =>
            result[1].r = result_value(int_(-INT_MAX))
       /\ input \in {INT_MIN_DIGITS, <<"-">> \o INT_MIN_DIGITS,
                     <<"4", "2", "9", "4", "9", "6", "7", "2", "9", "7">>} =>
            result[1].r = result_error("error parsing int")
       /\ input = <<"0", "0", "7">> => result[1].r = result_value(int_(7))
       /\ input = <<"-", "1", "2", "a">> =>
            (result[1].r = result_value(int_(-12)) /\ stack[1].consumed_ = 3)
       /\ input \in {<<"-">>, <<"-", "a">>, <<"-", "-", "1">>, <<>>} =>
            ~has_value(result[1].r)

\* parse_int has failed on "2147483648", whose ten digits it had read.
C39_Witness ==
  /\ main = "done"
  /\ Grammars[g] = parse_int
  /\ input = INT_MIN_DIGITS
  /\ result[1].r = result_error("error parsing int")
  /\ stack[1].log[2].cons = 10
  /\ Len(stack[1].log) = 3


IpSlash == <<"1", ".", "2", ".", "3", ".", "4", "/">>

\* C37: choice and try_ are committed.  What a coroutine has consumed and
\* the co_awaits it has completed are never taken back while it lives, so a
\* try_ attempt or an alternative that succeeded stays consumed; once an
\* alternative of first or of the variant parser has matched, no later one is
\* tried, and the enclosing sequence awaits each of its parsers once; when a
\* later parser of the sequence fails the whole parse fails, even where
\* another alternative would have matched: an address whose '/' was read
\* fails on a bad or missing mask with the '/' still consumed.
C37_ChoiceIsCommitted ==
  /\ [][ \A i \in Common :
           /\ stack'[i].consumed_ >= stack[i].consumed_
           /\ Len(stack'[i].log) >= Len(stack[i].log)
           /\ SubSeq(stack'[i].log, 1, Len(stack[i].log)) = stack[i].log
       ]_vars
  /\ [](\A i \in 1..Len(stack) :
          LET L == stack[i].log
          IN  /\ stack[i].p.k \in {"first", "variant"} =>
                   \A j \in 1..Len(L) : \A m \in (j + 1)..Len(L) :
                     Matched(L, j) => ~Tried(L, m)
              /\ stack[i].p.k \in SeqKinds =>
                   \A j \in 1..Len(L) : L[j].arg = j
              /\ \A j \in 1..Len(L) :
                   (L[j].try /\ has_value(L[j].r)) =>
                     stack[i].consumed_ >= L[j].at + L[j].cons)
  /\ [](main = "done" =>
          /\ (/\ Grammars[g] \in
                   {seq(<<op_or(chr("1"), str(<<"1", "a">>)), chr("1")>>),
                    seq(<<variant_parser(<<digit, str(<<"1", "a">>)>>),
                          chr("1")>>)}
              /\ input = <<"1", "a", "1">>) =>
               /\ result[1].r = result_error("expected '1'")
               /\ Len(stack[1].log) = 2
               /\ stack[1].log[1].cons = 1
          /\ Grammars[g] = parse_ip_address =>
               /\ input \in {IpSlash, IpSlash \o <<"a">>} =>
                    /\ ~has_value(result[1].r)
                    /\ stack[1].consumed_ = 8
                    /\ has_value(stack[1].log[8].r)
               /\ input = IpSlash \o <<"3", "3">> =>
                    result[1].r = result_error("subnet mask must be <= 32")
               /\ input = IpSlash \o <<"8">> =>
                    /\ has_value(result[1].r)
                    /\ result[1].r.val[1].subnet_mask = <<int_(8)>>
               /\ input \in {SubSeq(IpSlash, 1, 7),
                             SubSeq(IpSlash, 1, 7) \o <<" ", "/", "8">>} =>
                    /\ has_value(result[1].r)
                    /\ result[1].r.val[1].subnet_mask = <<>>
                    /\ stack[1].consumed_ = 7)

\* parse_ip_address has failed on "1.2.3.4/": the '/' was read by try_ and
\* stays consumed, the mask after it is missing.
C37_Witness ==
  /\ main = "done"
  /\ Grammars[g] = parse_ip_address
  /\ input = IpSlash
  /\ ~has_value(result[1].r)
  /\ stack[1].log[8].try
  /\ stack[1].log[8].adv = 1
  /\ stack[1].consumed_ = 8
  /\ Len(stack[1].log) = 9


\* The buffer the coroutine stack[i] was driven with.
DrivenWith(i) == SubSeq(input, Base(stack, i) + 1, Len(input))

\* The coroutine stack[i] has been resumed.
Resumed(i) == i >= 2 \/ main \in {"running", "done"}

\* C38: for every coroutine of a parse that has been resumed,
\* 0 <= consumed_ <= farthest_ <= the length of the buffer it was driven
\* with, and its buffer is that buffer less its first consumed_ characters;
\* when a coroutine takes over a sub-parser that succeeded, chars_consumed is
\* what the sub-parser consumed, is >= 0 and is at most what is left of the
\* coroutine's own buffer, so the assertions of await_resume hold.
C38_CursorBounds ==
  /\ [](/\ abort # "await_resume: chars_consumed >= 0"
        /\ \A i \in 1..Len(stack) :
             Resumed(i) =>
               /\ 0 <= stack[i].consumed_
               /\ stack[i].consumed_ <= stack[i].farthest_
               /\ stack[i].farthest_ <= Len(DrivenWith(i))
               /\ stack[i].in_ =
                    SubSeq(DrivenWith(i), stack[i].consumed_ + 1,
                           Len(DrivenWith(i))))
  /\ [][ (Completes /\ is_good(Awaited)) =>
           /\ chars_consumed(Awaiter, Awaited) = Awaited.consumed_
           /\ chars_consumed(Awaiter, Awaited) >= 0
           /\ chars_consumed(Awaiter, Awaited) <= Len(Awaiter.in_)
           /\ AwaiterNext.consumed_ = Awaiter.consumed_ + Awaited.consumed_
           /\ Len(AwaiterNext.in_) = Len(Awaiter.in_) - Awaited.consumed_
       ]_vars

\* A coroutine that had consumed already has taken over a sub-parser that
\* consumed two characters, and a failed attempt had gone farther before.
C38_Witness ==
  /\ step \in {"await_resume", "try_await_resume"}
  /\ has_value(LastLog(Top).r)
  /\ LastLog(Top).at >= 1
  /\ LastLog(Top).cons = 2
  /\ Top.consumed_ = LastLog(Top).at + 2
  /\ Top.farthest_ > Top.consumed_
  /\ Len(stack) >= 2

====
